---- MODULE Spec2Model ----
(***************************************************************************)
(* A model of the MSX emulator core: the paged memory bus (msx/src/bus.rs, *)
(* msx/src/slot.rs), the TMS9918 port protocol (msx/src/vdp.rs) and the    *)
(* Z80 step, interrupt and reset logic (msx/src/cpu.rs, msx/src/machine.rs)*)
(***************************************************************************)
EXTENDS Integers, Sequences, FiniteSets, TLC

VARIABLES
    primary_slot_config, \* bus.ppi.primary_slot_config (u8)
    slots,               \* bus.slots: [SlotType; 4], indexed 0..3
    wrote_to_ppi,        \* bus.wrote_to_ppi
    overflow_checks,     \* build profile: TRUE when integer overflow panics
    panicked,            \* a panic! or an out-of-bounds index aborted the program
    last,                \* the most recent completed call made on the Bus from outside
                         \* the CPU, and what it returned
    last_select,         \* the byte most recently written to port 0xA8
    nwrites,             \* number of write_byte calls made so far
    segments,            \* value returned by the last memory_segments() call
    vdp,                 \* the TMS9918 struct
    hist,                \* the VDP port operations completed since construction or reset
    ppi_since_poll,      \* an output to 0xA8..=0xAB happened since the last wrote_to_ppi()
    loaded,              \* the last ROM load attempted and how it ended
    cpu,                 \* the Z80 struct
    nresets,             \* number of Msx::reset calls made so far
    runner,              \* the Runner struct, and where its run loop stands
    instructions,        \* runner.instructions: the MRUList of executed instructions
    last_push,           \* the most recent MRUList::push call: its item, the list before
    step_output,         \* the most recent Runner::step executed an OUT to 0xA8..=0xAB
    ppi_edge             \* at_ppi_write() was called since the most recent
                         \* Runner::step and returned true

busvars == <<primary_slot_config, slots, wrote_to_ppi, overflow_checks, last,
             last_select, nwrites, segments, ppi_since_poll, loaded>>
vdpvars == <<vdp, hist>>
cpuvars == <<cpu, nresets>>
runvars == <<runner, instructions, last_push, step_output, ppi_edge>>
vars == <<busvars, vdpvars, cpuvars, runvars, panicked>>

-----------------------------------------------------------------------------
(* Bounds of the model *)

MaxWrites == 2          \* write_byte calls per behaviour
MaxOps == 5             \* VDP port operations per behaviour
MaxCycles == 5          \* CPU steps between two resets
MaxResets == 1          \* Msx::reset calls per behaviour
MaxCapacity == 3        \* capacity of an MRUList under test
MaxStepArg == 2         \* n of a `step n` command

(* Program constants *)

None == -1              \* Option::None

\* Addresses given to translate_address: both ends of each page and the
\* addresses of the bus tests.
Addrs == {\h0000, \h3FFF, \h4000, \h7FFF, \h8000, \hBFFF, \hC000, \hFFFF,
          \h0FFF, \h4FFF, \h8FFF, \hCFFF}
\* Addresses the CPU side reads and writes.
BusAddrs == {\h0000, \h4000, \h7FFF, \h8000, \hC000, \hFFFF}
\* Slot-select bytes written to port 0xA8 (those of the bus tests, and 0xC0).
SelectBytes == {\h00, \h30, \hF0, \h0D, \h7B, \hC0}
\* Bytes stored by write_byte.
StoreBytes == {\h55}
\* Ports given to Bus::output.
OutPorts == {\hA8, \h00}
\* Ports given to Bus::input and Bus::output: devices, and ports with no device.
IoPorts == {\h00, \h99, \hA8, \hAC}
\* Bytes written to them.
IoBytes == {\h00, \hF0}

-----------------------------------------------------------------------------
(* Bit arithmetic on naturals *)

RECURSIVE BitAnd(_, _)
BitAnd(a, b) ==
    IF a = 0 \/ b = 0 THEN 0
    ELSE (a % 2) * (b % 2) + 2 * BitAnd(a \div 2, b \div 2)

RECURSIVE BitOr(_, _)
BitOr(a, b) ==
    IF a = 0 THEN b
    ELSE IF b = 0 THEN a
    ELSE (IF a % 2 = 1 \/ b % 2 = 1 THEN 1 ELSE 0) + 2 * BitOr(a \div 2, b \div 2)

RECURSIVE BitXor(_, _)
BitXor(a, b) ==
    IF a = 0 THEN b
    ELSE IF b = 0 THEN a
    ELSE ((a + b) % 2) + 2 * BitXor(a \div 2, b \div 2)

RECURSIVE Pow2(_)
Pow2(n) == IF n = 0 THEN 1 ELSE 2 * Pow2(n - 1)

Shr(a, n) == a \div Pow2(n)
Shl(a, n) == a * Pow2(n)

-----------------------------------------------------------------------------
(* Slots: msx/src/slot.rs *)

\* A ROM image: len bytes, each equal to byte.
Image(len, byte) == [len |-> len, byte |-> byte]

EmptySlot == [kind |-> "Empty", base |-> 0, size |-> 0, rom |-> Image(0, 0), data |-> <<>>]

\* RamSlot::new: data = vec![0xFF; size]
RamSlot(base, size) ==
    [kind |-> "Ram", base |-> base, size |-> size, rom |-> Image(0, 0), data |-> <<>>]

\* RomSlot::new: data = vec![0xFF; size]; data[0..rom.len()] = rom.
RomSlot(rom, base, size) ==
    [kind |-> "Rom", base |-> base, size |-> size, rom |-> rom, data |-> <<>>]

\* data[i] of a slot; `data` holds the cells written since construction.
Cell(slot, i) ==
    IF i \in DOMAIN slot.data THEN slot.data[i]
    ELSE IF slot.kind = "Rom" /\ i < slot.rom.len THEN slot.rom.byte
    ELSE 255

\* RomSlot::translate_address / RamSlot::translate_address: address - self.base
\* on u16. -1 stands for the overflow panic of a build with overflow checks.
slot_translate_address(slot, address, checks) ==
    IF address >= slot.base THEN address - slot.base
    ELSE IF checks THEN None
    ELSE address - slot.base + 65536

\* Slot::read. [panic, value]
slot_read(slot, address, checks) ==
    IF slot.kind = "Empty" THEN [panic |-> FALSE, value |-> 255]
    ELSE LET i == slot_translate_address(slot, address, checks) IN
         IF i = None \/ i >= slot.size THEN [panic |-> TRUE, value |-> 0]
         ELSE [panic |-> FALSE, value |-> Cell(slot, i)]

\* Slot::write. [panic, slot]
slot_write(slot, address, value, checks) ==
    IF slot.kind = "Empty" THEN [panic |-> FALSE, slot |-> slot]
    ELSE LET i == slot_translate_address(slot, address, checks) IN
         IF i = None \/ i >= slot.size THEN [panic |-> TRUE, slot |-> slot]
         ELSE [panic |-> FALSE,
               slot |-> [slot EXCEPT !.data =
                            [j \in DOMAIN slot.data \cup {i} |->
                                IF j = i THEN value ELSE slot.data[j]]]]

-----------------------------------------------------------------------------
(* Bus: msx/src/bus.rs *)

MemorySegment(base, start, end, slot) ==
    [base |-> base, start |-> start, end |-> end, slot |-> slot]

\* The body of the `for n in 0..4` loop of memory_segments and the push after it.
\* c is <<>> for None and <<segment>> for Some(segment).
RECURSIVE segments_loop(_, _, _, _, _)
segments_loop(s, n, c, rolling_bases, segs) ==
    IF n = 4 THEN Append(segs, c[1])
    ELSE
        LET pos == n
            slot == BitAnd(Shr(s, pos * 2), 3)
            start == n * 16 * 1024
            end == (start + 16 * 1024 - 1) % 65536
            fresh == MemorySegment(rolling_bases[slot], start, end, slot)
            nc == IF c = <<>> THEN fresh
                  ELSE IF c[1].slot # slot THEN fresh
                  ELSE MemorySegment(c[1].base, c[1].start, end, slot)
            nsegs == IF c # <<>> /\ c[1].slot # slot THEN Append(segs, c[1]) ELSE segs
            nrolling == [rolling_bases EXCEPT ![slot] = (start + 16 * 1024) % 65536]
        IN segments_loop(s, n + 1, <<nc>>, nrolling, nsegs)

\* memory_segments with a segment pushed for every page, equal neighbours unmerged.
memory_segments_unmerged(s) ==
    [n \in 1..4 |->
        LET slot == BitAnd(Shr(s, (n - 1) * 2), 3)
            start == (n - 1) * 16 * 1024
            lower == {m \in 1..(n - 1) : BitAnd(Shr(s, (m - 1) * 2), 3) = slot}
        IN MemorySegment(IF lower = {} THEN 0
                         ELSE (CHOOSE m \in lower : \A k \in lower : k <= m) * 16 * 1024,
                         start, start + 16 * 1024 - 1, slot)]

\* Bus::memory_segments, with s = self.ppi.primary_slot_config
memory_segments(s) == segments_loop(s, 0, <<>>, [i \in 0..3 |-> 0], <<>>)

\* memory_segments for each value of the slot-select byte, computed once.
SegmentsOf == [s \in 0..255 |-> memory_segments(s)]

\* translate_address with the segment-relative address of bus.rs:157-158 returned.
translate_address_relative(s, address) ==
    LET segs == SegmentsOf[s]
        hits == {i \in 1..Len(segs) : address >= segs[i].start /\ address <= segs[i].end}
    IN IF hits = {} THEN [panic |-> TRUE, slot |-> 0, addr |-> 0]
       ELSE LET i == CHOOSE k \in hits : \A m \in hits : k <= m
            IN [panic |-> FALSE, slot |-> segs[i].slot,
                addr |-> (address - segs[i].start + segs[i].base) % 65536]

\* Bus::translate_address: the first segment holding the address gives the slot;
\* the address is returned as it came. [panic, slot, addr]
translate_address(s, address) ==
    LET segs == SegmentsOf[s]
        hits == {i \in 1..Len(segs) : address >= segs[i].start /\ address <= segs[i].end}
    IN IF hits = {} THEN [panic |-> TRUE, slot |-> 0, addr |-> 0]
       ELSE LET i == CHOOSE k \in hits : \A m \in hits : k <= m
            IN [panic |-> FALSE, slot |-> segs[i].slot, addr |-> address]

\* The result of a read of the slot and address t names, once the slot
\* returned r. [panic, slot, addr, value]
read_done(t, r) ==
    [panic |-> r.panic, slot |-> t.slot, addr |-> t.addr, value |-> r.value]

\* Bus::read_byte once translate_address returned t: self.slots[slot_number].read(addr)
read_translated(t, sl, checks) ==
    IF t.panic THEN [panic |-> TRUE, slot |-> 0, addr |-> 0, value |-> 0]
    ELSE read_done(t, slot_read(sl[t.slot], t.addr, checks))

\* Bus::read_byte. [panic, slot, addr, value]
read_byte(s, sl, addr, checks) == read_translated(translate_address(s, addr), sl, checks)

\* The result of a write to the slot and address t names, once the slot
\* returned w. [panic, slot, addr, slots]
write_done(t, w, sl) ==
    [panic |-> w.panic, slot |-> t.slot, addr |-> t.addr,
     slots |-> [sl EXCEPT ![t.slot] = w.slot]]

\* Bus::write_byte once translate_address returned t:
\* self.slots[slot_number].write(addr, data)
write_translated(t, sl, data, checks) ==
    IF t.panic THEN [panic |-> TRUE, slot |-> 0, addr |-> 0, slots |-> sl]
    ELSE write_done(t, slot_write(sl[t.slot], t.addr, data, checks), sl)

\* write_byte that takes the page number of the address for the slot number.
write_byte_by_page(s, sl, addr, data, checks) ==
    LET page == Shr(addr, 14)
        w == slot_write(sl[page], addr, data, checks)
    IN [panic |-> w.panic, slot |-> page, addr |-> addr,
        slots |-> [sl EXCEPT ![page] = w.slot]]

\* Bus::write_byte. [panic, slot, addr, slots]
write_byte(s, sl, addr, data, checks) ==
    write_translated(translate_address(s, addr), sl, data, checks)

\* The slot visible in the page of an address, as print_memory_page_info
\* derives it: (primary_slot_config >> (page * 2)) & 0x03.
page_slot(s, address) == BitAnd(Shr(s, Shr(address, 14) * 2), 3)

\* Ppi::write: port 0xA8 holds the primary-slot-select byte.
ppi_write(config, port, data) == IF port = \hA8 THEN data ELSE config

IsPpiPort(port) == port \in {\hA8, \hA9, \hAA, \hAB}

\* The slot installations given to Bus::new.
Installs ==
    { <<RomSlot(Image(\h8000, \hAA), 0, \h8000), EmptySlot, EmptySlot,
        RamSlot(0, \h10000)>>,
      <<RomSlot(Image(\h8000, \hAA), 0, \h10000),
        RomSlot(Image(\h4000, \hAA), \h4000, \h4000), EmptySlot, RamSlot(0, \h10000)>> }

NoCall == [op |-> "none", addr |-> 0, slot |-> 0, saddr |-> 0, value |-> 0]


-----------------------------------------------------------------------------
(* VDP: msx/src/vdp.rs *)

\* vram[a]; `vram` holds the cells written since [0; 0x4000].
vram_at(v, a) == IF a \in DOMAIN v.vram THEN v.vram[a] ELSE 0

\* TMS9918::default
TMS9918_new ==
    [vram |-> <<>>, data_pre_read |-> 0, registers |-> [r \in 0..7 |-> 0],
     status |-> 0, address |-> 0, first_write |-> None, display_mode |-> "Text1"]

\* read_vram that leaves the latch as it was.
read_vram_keeps_latch(v) ==
    IF v.address >= \h4000 THEN [panic |-> TRUE, vdp |-> v, ret |-> 0]
    ELSE [panic |-> FALSE,
          vdp |-> [v EXCEPT !.data_pre_read = vram_at(v, v.address),
                            !.address = (v.address + 1) % 65536],
          ret |-> v.data_pre_read]

\* TMS9918::read_vram. [panic, vdp, ret]; vram[address] panics past 0x3FFF.
read_vram(v) ==
    IF v.address >= \h4000 THEN [panic |-> TRUE, vdp |-> v, ret |-> 0]
    ELSE [panic |-> FALSE,
          vdp |-> [v EXCEPT !.data_pre_read = vram_at(v, v.address),
                            !.address = (v.address + 1) % 65536,
                            !.first_write = None],
          ret |-> v.data_pre_read]

\* TMS9918::write_98
write_98(v, data) ==
    IF v.address >= \h4000 THEN [panic |-> TRUE, vdp |-> v, ret |-> 0]
    ELSE [panic |-> FALSE,
          vdp |-> [v EXCEPT !.vram = [a \in DOMAIN v.vram \cup {v.address} |->
                                         IF a = v.address THEN data ELSE v.vram[a]],
                            !.data_pre_read = data,
                            !.address = BitAnd(v.address + 1, \h3FFF),
                            !.first_write = None],
          ret |-> 0]

read_register_keeps_flag(v) ==
    [panic |-> FALSE,
     vdp |-> [v EXCEPT !.first_write = None],
     ret |-> v.status]

\* TMS9918::read_register
read_register(v) ==
    [panic |-> FALSE,
     vdp |-> [v EXCEPT !.first_write = None, !.status = BitAnd(v.status, \h7F)],
     ret |-> v.status]

\* TMS9918::update_mode
update_mode(v) ==
    LET mx_bits == BitOr(Shr(BitAnd(v.registers[0], \h0E), 1),
                         Shl(BitAnd(v.registers[1], \h18), 2) % 256)
    IN [v EXCEPT !.display_mode =
            CASE mx_bits = \h00 -> "Graphic1"
              [] mx_bits = \h01 -> "Graphic2"
              [] mx_bits = \h08 -> "Text1"
              [] mx_bits = \h10 -> "Multicolor"
              [] OTHER -> "Text1"]

\* TMS9918::write_register. reg = data & 0x07, so of the match arms only those
\* of registers 0..7 are taken, and only 0 | 1 has an effect.
write_register(v, data, latched_value) ==
    LET reg == BitAnd(data, \h07)
        old_value == v.registers[reg]
        modified == BitXor(old_value, latched_value)
        v1 == [v EXCEPT !.registers[reg] = latched_value]
        v2 == IF reg \in {0, 1} /\ BitAnd(modified, \h0E) # 0 THEN update_mode(v1) ELSE v1
        v3 == IF reg = 1 /\ BitAnd(modified, \h18) # 0 THEN update_mode(v2) ELSE v2
    IN v3

\* TMS9918::write_99
write_99(v, data) ==
    IF v.first_write # None THEN
        LET latched_value == v.first_write IN
        IF BitAnd(data, \h80) = 0 THEN
            LET w == write_register(v, data, latched_value) IN
            [panic |-> FALSE,
             vdp |-> [w EXCEPT !.address =
                          BitAnd(BitOr(BitAnd(w.address, \h00FF),
                                       Shl(BitAnd(latched_value, \h03F), 8)), \h3FFF),
                               !.first_write = None],
             ret |-> 0]
        ELSE
            LET msb == BitAnd(data, \h3F)
                lsb == latched_value
                addr == BitOr(BitOr(BitAnd(v.address, \h3C00), Shl(msb, 8)), lsb)
            IN IF BitAnd(data, \h40) = 0 THEN
                   [panic |-> FALSE,
                    vdp |-> [v EXCEPT !.status = vram_at(v, addr),
                                      !.address = (addr + 1) % 65536,
                                      !.first_write = None],
                    ret |-> 0]
               ELSE
                   [panic |-> FALSE,
                    vdp |-> [v EXCEPT !.address = addr, !.first_write = None],
                    ret |-> 0]
    ELSE
        [panic |-> FALSE,
         vdp |-> [v EXCEPT !.first_write = data,
                           !.address = BitOr(BitAnd(v.address, \hFF00), data)],
         ret |-> 0]

\* TMS9918::read
vdp_read(v, port) ==
    CASE port = \h98 -> read_vram(v)
      [] port = \h99 -> read_register(v)
      [] OTHER -> [panic |-> FALSE, vdp |-> v, ret |-> 255]

\* TMS9918::write
vdp_write(v, port, data) ==
    CASE port = \h98 -> write_98(v, data)
      [] port = \h99 -> write_99(v, data)
      [] OTHER -> [panic |-> FALSE, vdp |-> v, ret |-> 0]

\* Bytes written to the control port: first bytes, and second bytes with bit 7
\* clear (0x00, 0x20) and with bit 7 set (0x80, 0xBF, 0xFF).
CtrlBytes == {\h00, \h20, \h80, \hBF, \hFF}
\* Bytes written to the data port; bit 7 set, the interrupt flag of a status byte.
DataBytes == {\hF7}
VdpPorts == {\h98, \h99}

PortOp(op, port, data, r, before) ==
    [op |-> op, port |-> port, data |-> data, ret |-> r.ret,
     latch |-> before.first_write, status |-> r.vdp.status]

-----------------------------------------------------------------------------
(* Devices behind Bus::reset and Bus::input *)

\* TMS9918::reset; display_mode is not among the fields it assigns.
TMS9918_reset(v) ==
    [v EXCEPT !.vram = <<>>, !.data_pre_read = 0, !.registers = [r \in 0..7 |-> 0],
              !.status = 0, !.address = 0, !.first_write = None]

\* Ppi::reset: clears the primary-slot-select byte.
ppi_reset(config) == 0

\* Ppi::read: port 0xA8 returns the primary-slot-select byte.
ppi_read(config, port) == config

-----------------------------------------------------------------------------
(* Loading: RomSlot::new as reached from RomSlot::load and Bus::load_rom *)

\* Lengths of the ROM images handed to the loaders.
RomLens == {\h4000, \h8000, \h10001}

\* RomSlot::new(rom, base, size) for an image of any length: [panic, slot].
\* data[0..rom.len()] is a range past the end of data when rom.len() > size.
RomSlot_new(rom, base, size) ==
    IF rom.len > size THEN [panic |-> TRUE, slot |-> EmptySlot]
    ELSE [panic |-> FALSE, slot |-> RomSlot(rom, base, size)]

\* RomSlot::load(rom_path, base, size) once the file has been read: Ok(slot),
\* or the panic of RomSlot::new.
RomSlot_load(rom, base, size) ==
    LET r == RomSlot_new(rom, base, size)
    IN [panic |-> r.panic, result |-> "Ok", slot |-> r.slot]

\* Bus::load_rom(slot, rom): [panic, slots]
load_rom(sl, slot, rom) ==
    LET r == RomSlot_new(rom, \h0000, \h10000)
    IN [panic |-> r.panic, slots |-> IF r.panic THEN sl ELSE [sl EXCEPT ![slot] = r.slot]]

NoLoad == [op |-> "none", len |-> 0, size |-> 0, result |-> "none"]

-----------------------------------------------------------------------------
(* CPU: msx/src/cpu.rs *)

\* Z80::new. track_flags and last_f only drive trace output and are left out.
Z80_new ==
    [a |-> \hFF, f |-> \hFF, b |-> \hFF, c |-> \hFF, d |-> \hFF, e |-> \hFF,
     h |-> \hFF, l |-> \hFF,
     a_alt |-> \hFF, f_alt |-> \hFF, b_alt |-> \hFF, c_alt |-> \hFF, d_alt |-> \hFF,
     e_alt |-> \hFF, h_alt |-> \hFF, l_alt |-> \hFF,
     sp |-> \hFFFF, pc |-> 0, ix |-> 0, iy |-> 0, iff1 |-> FALSE, iff2 |-> FALSE,
     im |-> 0, interrupt_request |-> FALSE, halted |-> FALSE, max_cycles |-> None,
     cycles |-> 0]

\* A reset that restores the values of Z80::new.
Z80_reset_as_new(c) == Z80_new

\* Z80::reset, the assignments to the CPU's own fields.
Z80_reset(c) ==
    [c EXCEPT !.a = \hFF, !.f = \hFF, !.b = \hFF, !.c = \hFF, !.d = \hFF, !.e = \hFF,
              !.h = \hFF, !.l = \hFF,
              !.a_alt = 0, !.f_alt = 0, !.b_alt = 0, !.c_alt = 0, !.d_alt = 0,
              !.e_alt = 0, !.h_alt = 0, !.l_alt = 0,
              !.sp = \hF000, !.pc = 0, !.ix = 0, !.iy = 0, !.iff1 = FALSE,
              !.iff2 = FALSE, !.im = 0, !.interrupt_request = FALSE, !.halted = FALSE,
              !.max_cycles = None, !.cycles = 0]

\* Bus::write_word, after the low byte was stored (w1): the high byte goes to
\* address + 1, a u16 addition. [panic, slot, addr, slots]
write_word_high(w1, s, sl, address, high_byte, checks) ==
    IF w1.panic \/ (address = \hFFFF /\ checks)
    THEN [panic |-> TRUE, slot |-> 0, addr |-> 0, slots |-> sl]
    ELSE write_byte(s, w1.slots, (address + 1) % 65536, high_byte, checks)

\* Bus::write_word: low byte at address, high byte at address + 1.
write_word(s, sl, address, value, checks) ==
    write_word_high(write_byte(s, sl, address, BitAnd(value, \h00FF), checks),
                    s, sl, address, Shr(BitAnd(value, \hFF00), 8), checks)

\* The CPU c once the write w of a push is done. [panic, cpu, slots]
pushed(c, w) == [panic |-> w.panic, cpu |-> c, slots |-> w.slots]

\* Z80::push: sp = sp.wrapping_sub(2); write_word(sp, value). [panic, cpu, slots]
push(c, s, sl, value, checks) ==
    pushed([c EXCEPT !.sp = (@ + 65534) % 65536],
           write_word(s, sl, (c.sp + 65534) % 65536, value, checks))

\* The result r of a push, with pc set to address. [panic, cpu, slots]
jump(r, address) ==
    [panic |-> r.panic, cpu |-> [r.cpu EXCEPT !.pc = address], slots |-> r.slots]

\* Z80::rst: push(pc + 1); pc = address. [panic, cpu, slots]
rst(c, s, sl, address, checks) ==
    jump(push(c, s, sl, (c.pc + 1) % 65536, checks), address)

\* Primary opcodes with no arm in Z80::execute.
UnknownPrimary == {\h1F, \h27, \h3B, \h46, \h4E, \h52, \h5B, \h6D, \h6E, \h7F,
                   \hC4, \hD4, \hE4, \hE8, \hE9, \hEC, \hF4}
\* Second bytes with an arm under each prefix.
KnownDD == {\hBE, \h21, \hE5, \hE1}
KnownFD == {\hBE, \h22, \h2A, \h2D, \hE5, \hE1, \hAF}
KnownED == {\hB0, \h42, \h56, \hA2, \hA3, \h51}

\* Opcodes of the 8-bit arithmetic and logic arms translated below: the blocks
\* ADC, SUB, SBC, AND, XOR, OR, CP over B, C, D, E, H, L, (HL), A, and their
\* immediate forms.
AluImmediate == {\hCE, \hD6, \hDE, \hE6, \hEE, \hF6, \hFE}
AluOps == (\h88..\hBF) \cup AluImmediate
\* The one-byte PUSH and POP opcodes.
PushOps == {\hC5, \hD5, \hE5, \hF5}
PopOps == {\hC1, \hD1, \hE1, \hF1}
\* The second bytes of the DD and FD prefixes translated below:
\* CP (IX+d) / CP (IY+d), PUSH and POP of the index register.
IndexOps == {\hBE, \hE5, \hE1}

\* The opcodes INC r / DEC r over B, C, D, E, H, L, (HL), A.
IncOps == {\h04, \h0C, \h14, \h1C, \h24, \h2C, \h34, \h3C}
DecOps == {\h05, \h0D, \h15, \h1D, \h25, \h2D, \h35, \h3D}

\* The opcodes whose arm calls rst, and 0xCF, whose arm serves BDOS calls.
RstOps == {\hC7, \hD7, \hDF, \hE7, \hEF, \hF7, \hFF}

\* The opcodes JR cc, e by condition NZ, Z, NC, C, and all relative jumps:
\* DJNZ e, JR e and JR cc, e.
JrCcOps == {\h20, \h28, \h30, \h38}
RelativeOps == {\h10, \h18} \cup JrCcOps

\* The opcodes LD (HL), r over B, C, D, E, H, L, A.
LdHlOps == {\h70, \h71, \h72, \h73, \h74, \h75, \h77}

\* Opcodes whose arm of Z80::execute is translated below.
Translated ==
    {\h00, \h76, \hFB, \hF3, \hCB, \hCF, \hD3, \hDD, \hFD, \hED}
        \cup UnknownPrimary
        \cup RstOps \cup RelativeOps \cup LdHlOps
        \cup AluOps \cup PushOps \cup PopOps \cup IncOps \cup DecOps

\* Programs stored at address 0 before the first step.
Programs ==
    { <<\hFB, \h76>>,                  \* EI; HALT
      <<\hFB, \h00, \h76>>,            \* EI; NOP; HALT
      <<\hF3, \h00, \hFB>>,            \* DI; NOP; EI
      <<\h76>>,                        \* HALT
      <<\hD3, \h99, \hD3, \hA8>>,      \* OUT (0x99),A; OUT (0xA8),A
      <<\hD3, \h98, \hFB, \h76>>,      \* OUT (0x98),A; EI; HALT
      <<\hFD, \h00, \h76>>,            \* FD 00 has no arm
      <<\hFD, \hAF, \h76>>,            \* FD AF
      <<\hDD, \h00>>,                  \* DD 00 has no arm
      <<\hED, \h00>>,                  \* ED 00 has no arm
      <<\h00, \h27>> }                 \* NOP; 0x27 has no arm

\* A RAM slot with a program stored from address 0 on (Msx::set_memory).
ProgramSlot(prog) ==
    [RamSlot(0, \h10000) EXCEPT !.data = [i \in 0..(Len(prog) - 1) |-> prog[i + 1]]]

\* The opcode execute_cycle fetches: read_byte(pc).
Fetched == read_byte(primary_slot_config, slots, cpu.pc, overflow_checks)

-----------------------------------------------------------------------------
(* CPU: flags and 8-bit arithmetic, msx/src/cpu.rs *)

\* enum Flag
FlagS == \h80
FlagZ == \h40
FlagH == \h10
FlagP == \h04
FlagN == \h02
FlagC == \h01

\* Z80::set_flag
set_flag(f, flag, value) == IF value THEN BitOr(f, flag) ELSE BitAnd(f, 255 - flag)

\* Z80::get_flag
get_flag(f, flag) == BitAnd(f, flag) # 0

\* A sequence of set_flag calls, <<flag, value>> each, in order.
RECURSIVE set_flags(_, _)
set_flags(f, calls) ==
    IF calls = <<>> THEN f
    ELSE set_flags(set_flag(f, calls[1][1], calls[1][2]), Tail(calls))

\* u8::count_ones
RECURSIVE count_ones(_)
count_ones(value) == IF value = 0 THEN 0 ELSE (value % 2) + count_ones(value \div 2)

\* parity(value): value.count_ones() % 2 == 0
parity(value) == count_ones(value) % 2 = 0

\* x.wrapping_sub(y) on u8
wrapping_sub8(x, y) == (x - y + 512) % 256

\* The carry a flag-reading instruction takes in: 1 if C is set, else 0.
carry_in(f) == IF get_flag(f, FlagC) THEN 1 ELSE 0

\* Z80::adc_a. 0xFF - value - carry is a u8 subtraction: with value = 0xFF and
\* carry = 1 it overflows, which panics under overflow checks and wraps to
\* 0xFF without them. S and P are not assigned. [panic, cpu]
adc_a(c, value, checks) ==
    LET a == c.a
        carry == carry_in(c.f)
        result == (a + value + carry) % 256
        limit == \hFF - value - carry
    IN IF limit < 0 /\ checks THEN [panic |-> TRUE, cpu |-> c]
       ELSE [panic |-> FALSE,
             cpu |-> [c EXCEPT !.a = result,
                               !.f = set_flags(c.f, << <<FlagZ, result = 0>>,
                                                       <<FlagN, FALSE>>,
                                                       <<FlagH, BitAnd(a, \h0F) + BitAnd(value, \h0F) + carry > \h0F>>,
                                                       <<FlagC, a > (limit + 256) % 256>> >>)]]

\* Z80::sub_a
sub_a(c, value) ==
    LET a == c.a
        result == wrapping_sub8(a, value)
    IN [c EXCEPT !.a = result,
                 !.f = set_flags(c.f, << <<FlagS, BitAnd(result, \h80) # 0>>,
                                         <<FlagZ, result = 0>>,
                                         <<FlagH, BitAnd(a, \h0F) < BitAnd(value, \h0F)>>,
                                         <<FlagP, BitAnd(BitAnd(BitXor(a, value), BitXor(a, result)), \h80) # 0>>,
                                         <<FlagN, TRUE>>,
                                         <<FlagC, a < value>> >>)]

\* sbc_a that leaves the carry-in out of the subtraction.
sbc_a_without_borrow(c, value) == sub_a(c, value)

\* Z80::sbc_a: wans = a - d - carry on i16 (two's complement below zero);
\* ans = wans & 0xff.
sbc_a(c, value) ==
    LET carry == carry_in(c.f)
        wans == (c.a - value - carry + 65536) % 65536
        ans == BitAnd(wans, \hFF)
    IN [c EXCEPT !.a = ans,
                 !.f = set_flags(c.f, << <<FlagS, BitAnd(ans, \h80) # 0>>,
                                         <<FlagZ, ans = 0>>,
                                         <<FlagC, BitAnd(wans, \h100) # 0>>,
                                         <<FlagP, BitAnd(BitAnd(BitXor(c.a, value), BitXor(c.a, ans)), \h80) # 0>>,
                                         <<FlagH, BitAnd(wrapping_sub8(wrapping_sub8(BitAnd(c.a, \h0F), BitAnd(value, \h0F)), carry), \h10) # 0>>,
                                         <<FlagN, TRUE>> >>)]

\* The flags and_a, or_a and xor_a assign from the new A; h is the value of H.
logic_flags(f, a, h) ==
    set_flags(f, << <<FlagZ, a = 0>>, <<FlagS, BitAnd(a, \h80) # 0>>, <<FlagH, h>>,
                    <<FlagP, parity(a)>>, <<FlagN, FALSE>>, <<FlagC, FALSE>> >>)

\* Z80::and_a
and_a(c, value) ==
    [c EXCEPT !.a = BitAnd(c.a, value), !.f = logic_flags(c.f, BitAnd(c.a, value), TRUE)]

\* Z80::or_a
or_a(c, value) ==
    [c EXCEPT !.a = BitOr(c.a, value), !.f = logic_flags(c.f, BitOr(c.a, value), FALSE)]

\* Z80::xor_a
xor_a(c, value) ==
    [c EXCEPT !.a = BitXor(c.a, value), !.f = logic_flags(c.f, BitXor(c.a, value), FALSE)]

\* cp that stores the difference in A, as sub_a does.
cp_stores_result(c, value) == sub_a(c, value)

\* Z80::cp
cp(c, value) ==
    LET result == wrapping_sub8(c.a, value)
        overflow == BitAnd(BitAnd(BitXor(c.a, value), BitXor(c.a, result)), \h80) # 0
    IN [c EXCEPT !.f = set_flags(c.f, << <<FlagS, BitAnd(result, \h80) # 0>>,
                                         <<FlagZ, result = 0>>,
                                         <<FlagH, BitAnd(c.a, \hF) < BitAnd(value, \hF)>>,
                                         <<FlagP, overflow>>,
                                         <<FlagN, TRUE>>,
                                         <<FlagC, c.a < value>> >>)]

\* Z80::get_bc, get_de, get_hl, get_af
get_bc(c) == c.b * 256 + c.c
get_de(c) == c.d * 256 + c.e
get_hl(c) == c.h * 256 + c.l
get_af(c) == c.a * 256 + c.f

\* Z80::set_bc, set_de, set_hl, set_af
set_bc(c, value) == [c EXCEPT !.b = Shr(value, 8), !.c = BitAnd(value, \hFF)]
set_de(c, value) == [c EXCEPT !.d = Shr(value, 8), !.e = BitAnd(value, \hFF)]
set_hl(c, value) == [c EXCEPT !.h = Shr(value, 8), !.l = BitAnd(value, \hFF)]
set_af(c, value) == [c EXCEPT !.a = Shr(value, 8), !.f = BitAnd(value, \hFF)]

-----------------------------------------------------------------------------
(* The runner and its instruction log: src/runner.rs, src/mru.rs *)

\* MRUList::new(capacity): VecDeque::with_capacity(capacity), no items.
MRUList_new(capacity) == [capacity |-> capacity, items |-> <<>>]

\* items.iter().position(|x| *x == item): the first place where item is held,
\* counted from 1; None when it is not held.
position(items, item) ==
    IF \E i \in DOMAIN items : items[i] = item
    THEN CHOOSE i \in DOMAIN items :
            items[i] = item /\ \A j \in 1..(i - 1) : items[j] # item
    ELSE None

\* VecDeque::remove(index)
remove(items, index) ==
    SubSeq(items, 1, index - 1) \o SubSeq(items, index + 1, Len(items))

\* VecDeque::pop_back: nothing to drop from an empty deque.
pop_back(items) == IF items = <<>> THEN items ELSE SubSeq(items, 1, Len(items) - 1)

\* What push keeps of the held items once position returned index.
kept_items(list, index) ==
    IF index # None THEN remove(list.items, index)
    ELSE IF Len(list.items) = list.capacity THEN pop_back(list.items)
    ELSE list.items

\* push that leaves an equal held item where it is.
push_keeps_equal(list, item) ==
    [list EXCEPT !.items = <<item>> \o kept_items(list, None)]

\* MRUList::push(item)
MRUList_push(list, item) ==
    [list EXCEPT !.items = <<item>> \o kept_items(list, position(list.items, item))]

\* No push made yet.
NoPush == [item |-> None, before |-> <<>>]

\* RunnerBuilder::build: running false, cycles 0. Of the builder's settings the
\* model keeps the breakpoints, the cycle limit and the break_on_ flags of the
\* run loop; no openMSX client is attached. `at` is where the run loop stands
\* and `pending` what is left of a `step n` command.
Runner_build(ppi, halt, bps, max) ==
    [at |-> "built", running |-> FALSE, break_on_ppi_write |-> ppi,
     break_on_halt |-> halt, breakpoints |-> bps, max_cycles |-> max, cycles |-> 0,
     pending |-> 0]

\* Msx::instruction(): the ProgramEntry of the instruction at PC. Its dump is
\* report_state(): the registers, the byte at HL and the opcode at PC. The
\* name and bytes that Instruction::parse decodes are not part of the model.
\* [panic, entry]
Msx_instruction(c, config, sl, checks) ==
    LET opcode == read_byte(config, sl, c.pc, checks)
        hl_contents == read_byte(config, sl, get_hl(c), checks)
    IN [panic |-> opcode.panic \/ hl_contents.panic,
        entry |-> [address |-> c.pc,
                   dump |-> [a |-> c.a, f |-> c.f, b |-> c.b, c |-> c.c, d |-> c.d,
                             e |-> c.e, h |-> c.h, l |-> c.l, sp |-> c.sp, pc |-> c.pc,
                             hl_contents |-> hl_contents.value,
                             opcode |-> opcode.value]]]

\* The instruction execute_cycle is about to execute is OUT (n),A with n one of
\* the PPI ports 0xA8..=0xAB: the CPU is not halted, takes no interrupt, and
\* fetches 0xD3 followed by n.
executes_ppi_output(c, config, sl, checks) ==
    /\ ~c.halted
    /\ ~(c.interrupt_request /\ c.iff1)
    /\ ~read_byte(config, sl, c.pc, checks).panic
    /\ read_byte(config, sl, c.pc, checks).value = \hD3
    /\ ~read_byte(config, sl, (c.pc + 1) % 65536, checks).panic
    /\ IsPpiPort(read_byte(config, sl, (c.pc + 1) % 65536, checks).value)

\* No Runner drives the machine: one as built by default, its log empty.
InitIdle ==
    /\ runner = Runner_build(FALSE, FALSE, {}, None)
    /\ instructions = MRUList_new(100)
    /\ last_push = NoPush
    /\ step_output = FALSE
    /\ ppi_edge = FALSE

-----------------------------------------------------------------------------

(* Initial states *)

InitVdp ==
    /\ vdp = TMS9918_new
    /\ hist = <<>>

\* Z80::new, and nothing loaded since Bus::new.
InitCpu ==
    /\ cpu = Z80_new
    /\ nresets = 0
    /\ loaded = NoLoad
    /\ InitIdle

\* Bus::new(slots) with Ppi::new(): slot-select byte 0.
InitBus ==
    /\ primary_slot_config = 0
    /\ \E inst \in Installs : slots = [i \in 0..3 |-> inst[i + 1]]
    /\ wrote_to_ppi = FALSE
    /\ ppi_since_poll = FALSE
    /\ overflow_checks \in BOOLEAN
    /\ last = NoCall
    /\ last_select = 0
    /\ nwrites = 0
    /\ segments = <<>>

Init == InitBus /\ InitVdp /\ InitCpu /\ panicked = FALSE

\* As the bus tests start: a Bus whose ppi.primary_slot_config was set directly.
InitMap ==
    /\ primary_slot_config \in 0..255
    /\ last_select = primary_slot_config
    /\ \E inst \in Installs : slots = [i \in 0..3 |-> inst[i + 1]]
    /\ wrote_to_ppi = FALSE
    /\ ppi_since_poll = FALSE
    /\ overflow_checks = TRUE
    /\ last = NoCall
    /\ nwrites = 0
    /\ segments = <<>>
    /\ InitVdp
    /\ InitCpu
    /\ panicked = FALSE

\* Msx::new with RAM in slots 0 and 3 and a program stored at address 0.
InitProgram ==
    /\ primary_slot_config = 0
    /\ \E prog \in Programs :
          slots = [i \in 0..3 |-> CASE i = 0 -> ProgramSlot(prog)
                                    [] i = 3 -> RamSlot(0, \h10000)
                                    [] OTHER -> EmptySlot]
    /\ wrote_to_ppi = FALSE
    /\ ppi_since_poll = FALSE
    /\ overflow_checks \in BOOLEAN
    /\ last = NoCall
    /\ last_select = 0
    /\ nwrites = 0
    /\ segments = <<>>
    /\ InitVdp
    /\ InitCpu
    /\ panicked = FALSE

\* A RAM slot with a program stored from address 0 on and, outside the program,
\* the bytes of cells stored at their addresses (Msx::set_memory).
RunSlot(prog, cells) ==
    [RamSlot(0, \h10000) EXCEPT !.data =
        [i \in (0..(Len(prog) - 1)) \cup DOMAIN cells |->
            IF i < Len(prog) THEN prog[i + 1] ELSE cells[i]]]

\* Msx::new with RAM in slots 0 and 3, memory as RunSlot stores it and the
\* CPU registers assigned as the tests of cpu.rs assign them.
InitMachine(prog, cells, c) ==
    /\ primary_slot_config = 0
    /\ slots = [i \in 0..3 |-> CASE i = 0 -> RunSlot(prog, cells)
                                   [] i = 3 -> RamSlot(0, \h10000)
                                   [] OTHER -> EmptySlot]
    /\ cpu = c
    /\ nresets = 0
    /\ loaded = NoLoad
    /\ wrote_to_ppi = FALSE
    /\ ppi_since_poll = FALSE
    /\ overflow_checks \in BOOLEAN
    /\ last = NoCall
    /\ last_select = 0
    /\ nwrites = 0
    /\ segments = <<>>
    /\ InitVdp
    /\ panicked = FALSE

\* The machine of InitMachine, stepped directly: no Runner drives it.
InitRun(prog, cells, c) == InitMachine(prog, cells, c) /\ InitIdle

\* Bytes held by A and by the operand of an arithmetic instruction.
Operands == {\h00, \h01, \h0F, \h80, \hC0, \hFF}
\* Bytes held by F before the instruction.
FlagBytes == {\h00, \h01, \hD6, \hD7}

\* One arithmetic instruction, then HALT.
AluProgram(op, v) == IF op \in AluImmediate THEN <<op, v, \h76>> ELSE <<op, \h76>>

\* One arithmetic instruction at address 0 with A = a, F = f, and v in the
\* registers B, C, D, E, H, L, in the immediate byte and in memory at HL.
InitAlu ==
    \E op \in AluOps, a \in Operands, v \in Operands, f \in FlagBytes :
        InitRun(AluProgram(op, v), [i \in {v * 257} |-> v],
                [Z80_new EXCEPT !.a = a, !.f = f, !.b = v, !.c = v, !.d = v, !.e = v,
                                !.h = v, !.l = v])

\* Words held by the register pairs before a PUSH.
Words == {\h0000, \h12F0, \h80FF, \hFFFF}
\* Values of SP before a PUSH.
StackPointers == {\hFFFF, \hF000}
\* The bytes of a word in the other order.
swap_bytes(w) == (w % 256) * 256 + (w \div 256)

\* PUSH rr; POP rr' back to back and with a NOP after each, PUSH and POP of the
\* index registers, and CP (IX+d), CP (IY+d) with d = 2 and d = -2; HALT ends
\* each program.
StackPrograms ==
    { <<p, q, \h76, \h76>> : p \in PushOps, q \in PopOps }
      \cup { <<p, \h00, q, \h00, \h76>> : p \in PushOps, q \in PopOps }
      \cup { <<x, \hE5, y, \hE1, \h76>> : x \in {\hDD, \hFD}, y \in {\hDD, \hFD} }
      \cup { <<x, \hBE, d, \h76, \h76>> : x \in {\hDD, \hFD}, d \in {\h02, \hFE} }

\* A stack program at address 0 with AF = BC = IX = w, DE = IY = w with its
\* bytes swapped, HL = 0x4000 and SP = sp.
InitStack ==
    \E prog \in StackPrograms, w \in Words, sp \in StackPointers :
        InitRun(prog, <<>>,
                [Z80_new EXCEPT !.a = w \div 256, !.f = w % 256,
                                !.b = w \div 256, !.c = w % 256,
                                !.d = w % 256, !.e = w \div 256,
                                !.h = \h40, !.l = \h00,
                                !.ix = w, !.iy = swap_bytes(w), !.sp = sp])

\* Values of BC, HL and DE before LDIR: no byte, a few bytes; ranges apart,
\* overlapping with the destination above or below the source, and ranges
\* that wrap from 0xFFFF to 0x0000.
LdirCounts == {0, 1, 2, 3}
LdirSources == {\h0100, \h0101, \hFFFF}
LdirDestinations == {\h0100, \h0101, \h0102, \h8000, \hFFFE}
\* The bytes stored at 0x0100..0x0103 before LDIR.
LdirCells == [i \in \h0100..\h0103 |-> CASE i = \h0100 -> \h11 [] i = \h0101 -> \h22
                                           [] i = \h0102 -> \h33 [] i = \h0103 -> \h44]

\* LDIR; HALT at address 0 with BC, HL, DE chosen and F all ones or all zeros.
InitLdir ==
    \E bc \in LdirCounts, hl \in LdirSources, de \in LdirDestinations, f \in {\h00, \hFF} :
        InitRun(<<\hED, \hB0, \h76>>, LdirCells,
                [Z80_new EXCEPT !.f = f, !.b = bc \div 256, !.c = bc % 256,
                                !.h = hl \div 256, !.l = hl % 256,
                                !.d = de \div 256, !.e = de % 256])

\* Values of HL and BC before SBC HL, BC: both ends of the range, both sides of
\* the sign bit and of the borrow from bit 11.
SbcWords == {\h0000, \h0001, \h1000, \h7FFF, \h8000, \hFFFF}

\* SBC HL, BC; HALT at address 0 with HL, BC chosen and F all zeros, C alone or
\* all ones.
InitSbcHl ==
    \E hl \in SbcWords, bc \in SbcWords, f \in {\h00, \h01, \hFF} :
        InitRun(<<\hED, \h42, \h76>>, <<>>,
                [Z80_new EXCEPT !.f = f, !.h = hl \div 256, !.l = hl % 256,
                                !.b = bc \div 256, !.c = bc % 256])

\* Bytes held by the operand of INC and DEC: both ends of the range and both
\* sides of the carries out of bit 3 and into bit 7.
IncDecValues == {\h00, \h01, \h0F, \h10, \h7F, \h80, \hFF}

\* INC or DEC; HALT at address 0 with v in the operand and F all zeros or all
\* ones: the registers hold v, and for the (HL) forms HL = 0x4000 and the byte
\* there is v.
InitIncDec ==
    \E op \in IncOps \cup DecOps, v \in IncDecValues, f \in {\h00, \hFF} :
        InitRun(<<op, \h76>>, [i \in {\h4000} |-> v],
                [Z80_new EXCEPT !.f = f, !.a = v, !.b = v, !.c = v, !.d = v, !.e = v,
                                !.h = IF op \in {\h34, \h35} THEN \h40 ELSE v,
                                !.l = IF op \in {\h34, \h35} THEN \h00 ELSE v])

\* Values of PC and SP before RST: PC at both ends of memory and inside it, SP
\* as Z80::new and Z80::reset leave it and at the bottom of memory.
RstPcs == {\h0000, \h4000, \hFFFF}
RstStackPointers == {\hFFFF, \hF000, \h0001}

\* One of the eight RST opcodes at PC, with C a BDOS function number or not,
\* DE = 0x8000 and a '$' at 0x8001 or nowhere.
InitRst ==
    \E op \in RstOps \cup {\hCF}, pc \in RstPcs, sp \in RstStackPointers,
       fn \in {\h02, \h09, \hFF}, dollar \in BOOLEAN :
        InitRun(<<>>,
                [i \in {pc} \cup (IF dollar THEN {\h8001} ELSE {}) |->
                    IF i = pc THEN op ELSE \h24],
                [Z80_new EXCEPT !.pc = pc, !.sp = sp, !.c = fn, !.d = \h80, !.e = \h00])

\* Offset bytes of a relative jump: 0, 1, 126, 127, -128, -2, -1.
Offsets == {\h00, \h01, \h7E, \h7F, \h80, \hFE, \hFF}
\* Values of PC before a relative jump: the ends of memory and the addresses
\* around 0x7FFF.
JumpPcs == {\h0000, \h7FFD, \h7FFE, \hFFFE, \hFFFF}

\* A relative jump at PC with its offset byte after it, F with Z, with C or
\* with no flag set, and B = 0, 1 or 2.
InitRelative ==
    \E op \in RelativeOps, e \in Offsets, pc \in JumpPcs, f \in {\h00, \h01, \h40},
       b \in {\h00, \h01, \h02} :
        InitRun(<<>>, [i \in {pc, (pc + 1) % 65536} |-> IF i = pc THEN op ELSE e],
                [Z80_new EXCEPT !.pc = pc, !.f = f, !.b = b])

\* LD (HL), r; HALT at address 0 with A, B, C, D, E holding five different
\* bytes, HL one of four addresses and F all zeros or all ones.
InitLdHl ==
    \E op \in LdHlOps, v \in {\h00, \h10, \hF0}, h \in {\h40, \hC0}, l \in {\h00, \hFF},
       f \in {\h00, \hFF} :
        InitRun(<<op, \h76>>, <<>>,
                [Z80_new EXCEPT !.a = v + 1, !.b = v + 2, !.c = v + 3, !.d = v + 4,
                                !.e = v + 5, !.h = h, !.l = l, !.f = f])

\* Second bytes after 0xCB: every rotate and shift, and one each of BIT, RES
\* and SET on a register and on (HL).
CbSeconds == (\h00..\h3F) \cup {\h47, \h7E, \h87, \hBE, \hC7, \hFE}
\* Bytes held by the operand of a rotate or shift.
ShiftValues == {\h00, \h01, \h80, \h81, \h55, \hFF}

\* 0xCB and a second byte at address 0 with v in the operand and F all zeros
\* or all ones: the registers hold v, and for the (HL) forms HL = 0x4000 and
\* the byte there is v.
InitCb ==
    \E second \in CbSeconds, v \in ShiftValues, f \in {\h00, \hFF} :
        InitRun(<<\hCB, second, \h76>>, [i \in {\h4000} |-> v],
                [Z80_new EXCEPT !.f = f, !.a = v, !.b = v, !.c = v, !.d = v, !.e = v,
                                !.h = IF second % 8 = 6 THEN \h40 ELSE v,
                                !.l = IF second % 8 = 6 THEN \h00 ELSE v])

\* LD IX, nn; LD (nn), IY; FD 2A nn: each followed by HALT.
IndexLoadPrograms ==
    { <<x[1], x[2], lo, hi, \h76>> :
         x \in { <<\hDD, \h21>>, <<\hFD, \h22>>, <<\hFD, \h2A>> },
         lo \in {\h00, \h34, \hFF}, hi \in {\h12, \h40, \hFF} }

\* The bytes stored at 0x1234, 0x1235 and 0x2A2A, 0x2A2B before the load.
IndexLoadCells ==
    [i \in {\h1234, \h1235, \h2A2A, \h2A2B} |->
        CASE i = \h1234 -> \hCD [] i = \h1235 -> \hAB
          [] i = \h2A2A -> \h11 [] i = \h2A2B -> \h22]

\* An index load at address 0 with IX = w and IY = w with its bytes swapped.
InitIndexLoad ==
    \E prog \in IndexLoadPrograms, w \in Words :
        InitRun(prog, IndexLoadCells, [Z80_new EXCEPT !.ix = w, !.iy = swap_bytes(w)])

\* Items pushed to a list under test.
LogItems == 1..5

\* A new MRUList of each capacity up to MaxCapacity, beside an idle machine.
InitMru ==
    /\ InitMachine(<<\h76>>, <<>>, Z80_new)
    /\ runner = Runner_build(FALSE, FALSE, {}, None)
    /\ \E capacity \in 0..MaxCapacity : instructions = MRUList_new(capacity)
    /\ last_push = NoPush
    /\ step_output = FALSE
    /\ ppi_edge = FALSE

\* Programs run under the runner.
RunnerPrograms ==
    { <<\h00, \hD3, \hA8, \h00, \h76>>,     \* NOP; OUT (0xA8),A; NOP; HALT
      <<\hD3, \hA9, \hD3, \hAA, \h00, \h76>>,  \* OUT (0xA9),A; OUT (0xAA),A; NOP; HALT
      <<\h00, \h00, \h76>> }                \* NOP; NOP; HALT

\* A Runner as built, over Msx::new with a program stored at address 0: each
\* setting of break_on_ppi_write and break_on_halt, with or without a
\* breakpoint at address 1 and a cycle limit of 1.
InitRunner ==
    /\ \E prog \in RunnerPrograms : InitMachine(prog, <<>>, Z80_new)
    /\ \E ppi \in BOOLEAN, halt \in BOOLEAN, bps \in {{}, {\h0001}}, max \in {None, 1} :
          runner = Runner_build(ppi, halt, bps, max)
    /\ instructions = MRUList_new(100)
    /\ last_push = NoPush
    /\ step_output = FALSE
    /\ ppi_edge = FALSE

-----------------------------------------------------------------------------
(* Actions *)

\* A panic: the program ends where it is.
Panic == panicked' = TRUE /\ UNCHANGED <<busvars, vdpvars, cpuvars>>

\* TMS9918::read(port), as called by Bus::input for ports 0x98 | 0x99
VdpRead(port) ==
    /\ ~panicked
    /\ Len(hist) < MaxOps
    /\ \E r \in {vdp_read(vdp, port)} :
       IF r.panic THEN panicked' = TRUE /\ UNCHANGED vdpvars
       ELSE /\ vdp' = r.vdp
            /\ hist' = Append(hist, PortOp("read", port, 0, r, vdp))
            /\ UNCHANGED panicked
    /\ UNCHANGED <<busvars, cpuvars, runvars>>

\* TMS9918::write(port, data), as called by Bus::output for ports 0x98 | 0x99
VdpWrite(port, data) ==
    /\ ~panicked
    /\ Len(hist) < MaxOps
    /\ \E r \in {vdp_write(vdp, port, data)} :
       IF r.panic THEN panicked' = TRUE /\ UNCHANGED vdpvars
       ELSE /\ vdp' = r.vdp
            /\ hist' = Append(hist, PortOp("write", port, data, r, vdp))
            /\ UNCHANGED panicked
    /\ UNCHANGED <<busvars, cpuvars, runvars>>

\* Bus::output(port, data): what it does to the devices and to the PPI-write
\* flag. The PSG (ports 0xA0 | 0xA1) is not part of the model.
bus_output(port, data) ==
    IF port \in VdpPorts THEN
        /\ Len(hist) < MaxOps
        /\ \E r \in {vdp_write(vdp, port, data)} :
           IF r.panic THEN panicked' = TRUE /\ UNCHANGED vdpvars
           ELSE /\ vdp' = r.vdp
                /\ hist' = Append(hist, PortOp("write", port, data, r, vdp))
                /\ UNCHANGED panicked
        /\ UNCHANGED <<primary_slot_config, wrote_to_ppi, ppi_since_poll, last_select>>
    ELSE IF IsPpiPort(port) THEN
        /\ wrote_to_ppi' = TRUE
        /\ ppi_since_poll' = TRUE
        /\ primary_slot_config' = ppi_write(primary_slot_config, port, data)
        /\ last_select' = IF port = \hA8 THEN data ELSE last_select
        /\ UNCHANGED <<vdpvars, panicked>>
    ELSE UNCHANGED <<primary_slot_config, wrote_to_ppi, ppi_since_poll, last_select,
                     vdpvars, panicked>>

\* Bus::output(port, data), called on the bus directly.
Output(port, data) ==
    /\ ~panicked
    /\ port \notin {\hA0, \hA1}
    /\ bus_output(port, data)
    /\ last' = IF port \in VdpPorts THEN last
               ELSE [NoCall EXCEPT !.op = "output", !.addr = port, !.value = data]
    /\ UNCHANGED <<slots, overflow_checks, nwrites, segments, loaded, cpuvars, runvars>>

\* Bus::input that answers 0 on a port with no device.
bus_input_zero(v, config, port) ==
    IF port \in VdpPorts THEN vdp_read(v, port)
    ELSE IF IsPpiPort(port) THEN [panic |-> FALSE, vdp |-> v, ret |-> ppi_read(config, port)]
    ELSE [panic |-> FALSE, vdp |-> v, ret |-> 0]

\* Bus::input(port): [panic, vdp, ret]
bus_input(v, config, port) ==
    IF port \in VdpPorts THEN vdp_read(v, port)
    ELSE IF IsPpiPort(port) THEN [panic |-> FALSE, vdp |-> v, ret |-> ppi_read(config, port)]
    ELSE [panic |-> FALSE, vdp |-> v, ret |-> \hFF]

\* Bus::input(port), called on the bus directly. Of the PPI ports only 0xA8 is
\* part of the model.
Input(port) ==
    /\ ~panicked
    /\ port \notin {\hA0, \hA1, \hA9, \hAA, \hAB}
    /\ port \in VdpPorts => Len(hist) < MaxOps
    /\ \E r \in {bus_input(vdp, primary_slot_config, port)} :
       IF r.panic THEN panicked' = TRUE /\ UNCHANGED <<vdpvars, last>>
       ELSE /\ vdp' = r.vdp
            /\ hist' = IF port \in VdpPorts
                       THEN Append(hist, PortOp("read", port, 0, r, vdp)) ELSE hist
            /\ last' = [NoCall EXCEPT !.op = "input", !.addr = port, !.value = r.ret]
            /\ UNCHANGED panicked
    /\ UNCHANGED <<primary_slot_config, slots, wrote_to_ppi, ppi_since_poll,
                   overflow_checks, last_select, nwrites, segments, loaded, cpuvars, runvars>>

\* wrote_to_ppi that leaves the flag set.
wrote_to_ppi_sticky(flag) == [ret |-> flag, flag |-> flag]

\* Bus::wrote_to_ppi: returns the flag and clears it. [ret, flag]
wrote_to_ppi_take(flag) == [ret |-> flag, flag |-> FALSE]

\* Msx::wrote_to_ppi(), which calls Bus::wrote_to_ppi(): what the call changes.
Msx_wrote_to_ppi ==
    /\ \E r \in {wrote_to_ppi_take(wrote_to_ppi)} :
       /\ wrote_to_ppi' = r.flag
       /\ last' = [NoCall EXCEPT !.op = "wrote_to_ppi", !.value = IF r.ret THEN 1 ELSE 0]
    /\ ppi_since_poll' = FALSE

\* Msx::wrote_to_ppi(), called on the machine directly.
WroteToPpiCall ==
    /\ ~panicked
    /\ Msx_wrote_to_ppi
    /\ UNCHANGED <<primary_slot_config, slots, overflow_checks, last_select, nwrites,
                   segments, loaded, vdpvars, cpuvars, runvars, panicked>>

\* Bus::read_byte(addr)
ReadByte(addr) ==
    /\ ~panicked
    /\ \E r \in {read_byte(primary_slot_config, slots, addr, overflow_checks)} :
       IF r.panic THEN panicked' = TRUE /\ UNCHANGED last
       ELSE /\ last' = [op |-> "read_byte", addr |-> addr, slot |-> r.slot,
                        saddr |-> r.addr, value |-> r.value]
            /\ UNCHANGED panicked
    /\ UNCHANGED <<primary_slot_config, slots, wrote_to_ppi, ppi_since_poll,
                   overflow_checks, last_select, nwrites, segments, loaded, vdpvars,
                   cpuvars, runvars>>

\* Bus::write_byte(addr, data)
WriteByte(addr, data) ==
    /\ ~panicked
    /\ nwrites < MaxWrites
    /\ \E w \in {write_byte(primary_slot_config, slots, addr, data, overflow_checks)} :
       IF w.panic THEN panicked' = TRUE /\ UNCHANGED <<last, slots, nwrites>>
       ELSE /\ slots' = w.slots
            /\ nwrites' = nwrites + 1
            /\ last' = [op |-> "write_byte", addr |-> addr, slot |-> w.slot,
                        saddr |-> w.addr, value |-> data]
            /\ UNCHANGED panicked
    /\ UNCHANGED <<primary_slot_config, wrote_to_ppi, ppi_since_poll, overflow_checks,
                   last_select, segments, loaded, vdpvars, cpuvars, runvars>>

\* Bus::memory_segments()
MemorySegmentsCall ==
    /\ ~panicked
    /\ segments' = SegmentsOf[primary_slot_config]
    /\ UNCHANGED <<primary_slot_config, slots, wrote_to_ppi, ppi_since_poll,
                   overflow_checks, last, last_select, nwrites, loaded, vdpvars,
                   cpuvars, runvars, panicked>>

\* Bus::translate_address(address)
TranslateCall(address) ==
    /\ ~panicked
    /\ \E t \in {translate_address(primary_slot_config, address)} :
       IF t.panic THEN panicked' = TRUE /\ UNCHANGED last
       ELSE /\ last' = [op |-> "translate_address", addr |-> address, slot |-> t.slot,
                        saddr |-> t.addr, value |-> 0]
            /\ UNCHANGED panicked
    /\ UNCHANGED <<primary_slot_config, slots, wrote_to_ppi, ppi_since_poll,
                   overflow_checks, last_select, nwrites, segments, loaded, vdpvars,
                   cpuvars, runvars>>

\* Bus::load_rom(slot, rom), through Msx::load_rom
LoadRom(slot, len) ==
    /\ ~panicked
    /\ \E r \in {load_rom(slots, slot, Image(len, \hAA))} :
       /\ loaded' = [op |-> "load_rom", len |-> len, size |-> \h10000,
                     result |-> IF r.panic THEN "panic" ELSE "Ok"]
       /\ slots' = r.slots
       /\ panicked' = r.panic
    /\ UNCHANGED <<primary_slot_config, wrote_to_ppi, ppi_since_poll, overflow_checks,
                   last, last_select, nwrites, segments, vdpvars, cpuvars, runvars>>

\* RomSlot::load(path, base, size) for a file of len bytes, the slot installed
\* at index `slot` as the runner's rom_slot_from_file does.
RomSlotLoad(slot, len, base, size) ==
    /\ ~panicked
    /\ \E r \in {RomSlot_load(Image(len, \hAA), base, size)} :
       /\ loaded' = [op |-> "RomSlot::load", len |-> len, size |-> size,
                     result |-> IF r.panic THEN "panic" ELSE r.result]
       /\ slots' = IF r.panic THEN slots ELSE [slots EXCEPT ![slot] = r.slot]
       /\ panicked' = r.panic
    /\ UNCHANGED <<primary_slot_config, wrote_to_ppi, ppi_since_poll, overflow_checks,
                   last, last_select, nwrites, segments, vdpvars, cpuvars, runvars>>

\* Z80::request_interrupt
RequestInterrupt ==
    /\ ~panicked
    /\ cpu' = [cpu EXCEPT !.interrupt_request = TRUE]
    /\ UNCHANGED <<busvars, vdpvars, nresets, runvars, panicked>>

\* The interrupt branch of execute_cycle: [panic, cpu, slots]
accept_interrupt_keeps_request(c, s, sl, checks) ==
    jump(push([c EXCEPT !.iff1 = FALSE], s, sl, c.pc, checks), \h0038)

\* The interrupt branch without the jump: pc stays where it was.
accept_interrupt_without_jump(c, s, sl, checks) ==
    push([c EXCEPT !.interrupt_request = FALSE, !.iff1 = FALSE], s, sl, c.pc, checks)

\* The interrupt branch of execute_cycle: interrupt_request = false;
\* iff1 = false; push(pc); pc = 0x0038. [panic, cpu, slots]
accept_interrupt(c, s, sl, checks) ==
    jump(push([c EXCEPT !.interrupt_request = FALSE, !.iff1 = FALSE], s, sl, c.pc, checks),
         \h0038)

\* HALT that leaves PC on the opcode.
halt_keeps_pc(c) == [c EXCEPT !.halted = TRUE]

\* Z80::execute, arm 0x76 HALT
halt(c) == [c EXCEPT !.pc = (@ + 1) % 65536, !.halted = TRUE]

-----------------------------------------------------------------------------
(* CPU: the arithmetic, stack and block-copy arms of Z80::execute *)

\* The register an arm of the block 0x88..0xBF passes on: B, C, D, E, H, L, A
\* by the low three bits of the opcode, except that the arm 0x88 (ADC A, B)
\* passes self.a.
arm_register(c, opcode) ==
    IF opcode = \h88 THEN c.a
    ELSE CASE opcode % 8 = 0 -> c.b
           [] opcode % 8 = 1 -> c.c
           [] opcode % 8 = 2 -> c.d
           [] opcode % 8 = 3 -> c.e
           [] opcode % 8 = 4 -> c.h
           [] opcode % 8 = 5 -> c.l
           [] opcode % 8 = 7 -> c.a

\* The value an arithmetic arm works on: read_byte(pc + 1) in the immediate
\* arms, read_byte(get_hl()) in the (HL) arms, a register otherwise. [panic, value]
alu_operand(c, opcode) ==
    IF opcode \in AluImmediate
    THEN read_byte(primary_slot_config, slots, (c.pc + 1) % 65536, overflow_checks)
    ELSE IF opcode % 8 = 6
    THEN read_byte(primary_slot_config, slots, get_hl(c), overflow_checks)
    ELSE [panic |-> FALSE, slot |-> 0, addr |-> 0, value |-> arm_register(c, opcode)]

\* What an arithmetic arm does to A and F. The arms 0xCE (ADC A, n), 0xEE
\* (XOR n) and 0xB0..0xB5 (OR r) assign A and no flag; 0xB7 (OR A) assigns the
\* flags of or_a. [panic, cpu]
alu(c, opcode, value, checks) ==
    CASE opcode \in \h88..\h8F -> adc_a(c, value, checks)
      [] opcode = \hCE -> [panic |-> FALSE, cpu |-> [c EXCEPT !.a = (c.a + value) % 256]]
      [] opcode \in (\h90..\h97) \cup {\hD6} -> [panic |-> FALSE, cpu |-> sub_a(c, value)]
      [] opcode \in (\h98..\h9F) \cup {\hDE} -> [panic |-> FALSE, cpu |-> sbc_a(c, value)]
      [] opcode \in (\hA0..\hA7) \cup {\hE6} -> [panic |-> FALSE, cpu |-> and_a(c, value)]
      [] opcode \in \hA8..\hAF -> [panic |-> FALSE, cpu |-> xor_a(c, value)]
      [] opcode = \hEE -> [panic |-> FALSE, cpu |-> [c EXCEPT !.a = BitXor(c.a, value)]]
      [] opcode \in \hB0..\hB5 -> [panic |-> FALSE, cpu |-> [c EXCEPT !.a = BitOr(c.a, value)]]
      [] opcode \in {\hB6, \hB7, \hF6} -> [panic |-> FALSE, cpu |-> or_a(c, value)]
      [] opcode \in (\hB8..\hBF) \cup {\hFE} -> [panic |-> FALSE, cpu |-> cp(c, value)]

\* The bytes an arithmetic arm adds to pc.
alu_length(opcode) == IF opcode \in AluImmediate THEN 2 ELSE 1

\* Z80::execute, the arithmetic and logic arms
execute_alu(c, opcode) ==
    \E o \in {alu_operand(c, opcode)} :
       IF o.panic THEN Panic
       ELSE \E r \in {alu(c, opcode, o.value, overflow_checks)} :
               IF r.panic THEN Panic
               ELSE /\ cpu' = [r.cpu EXCEPT !.pc = (@ + alu_length(opcode)) % 65536]
                    /\ UNCHANGED <<busvars, vdpvars, nresets, panicked>>

\* The two bytes of a word read. [panic, value]
word_of(lo, hi) == [panic |-> lo.panic \/ hi.panic, value |-> hi.value * 256 + lo.value]

\* Bus::read_word: low byte at address, high byte at address + 1, a u16
\* addition. [panic, value]
read_word(s, sl, address, checks) ==
    IF address = \hFFFF /\ checks THEN [panic |-> TRUE, value |-> 0]
    ELSE word_of(read_byte(s, sl, address, checks),
                 read_byte(s, sl, (address + 1) % 65536, checks))

\* The CPU c once the read r of a pop is done. [panic, cpu, value]
popped(c, r) == [panic |-> r.panic, cpu |-> c, value |-> r.value]

\* pop that leaves sp where it was.
pop_keeps_sp(c, s, sl, checks) == popped(c, read_word(s, sl, c.sp, checks))

\* Z80::pop: value = read_word(sp); sp = sp.wrapping_add(2). [panic, cpu, value]
pop(c, s, sl, checks) ==
    popped([c EXCEPT !.sp = (@ + 2) % 65536], read_word(s, sl, c.sp, checks))

\* The value a PUSH arm hands to push.
push_value(c, opcode) ==
    CASE opcode = \hC5 -> get_bc(c)
      [] opcode = \hD5 -> get_de(c)
      [] opcode = \hE5 -> get_hl(c)
      [] opcode = \hF5 -> get_af(c)

\* The register pair a POP arm stores the popped value in.
pop_store(c, opcode, value) ==
    CASE opcode = \hC1 -> set_bc(c, value)
      [] opcode = \hD1 -> set_de(c, value)
      [] opcode = \hE1 -> set_hl(c, value)
      [] opcode = \hF1 -> set_af(c, value)

\* The bytes a PUSH or POP arm adds to pc: PUSH AF adds 1 once, every other
\* arm adds 1 before and 1 after the stack access.
stack_length(opcode) == IF opcode = \hF5 THEN 1 ELSE 2

\* A step that changes the CPU and the slots only.
CpuAndSlots(c, sl) ==
    /\ cpu' = c
    /\ slots' = sl
    /\ UNCHANGED <<primary_slot_config, wrote_to_ppi, ppi_since_poll, overflow_checks,
                   last, last_select, nwrites, segments, loaded, vdpvars, nresets,
                   panicked>>

\* Z80::execute, the arms PUSH BC/DE/HL/AF and POP BC/DE/HL/AF
execute_stack(c, opcode) ==
    IF opcode \in PushOps
    THEN \E r \in {push(c, primary_slot_config, slots, push_value(c, opcode),
                        overflow_checks)} :
            IF r.panic THEN Panic
            ELSE CpuAndSlots([r.cpu EXCEPT !.pc = (@ + stack_length(opcode)) % 65536],
                             r.slots)
    ELSE \E r \in {pop(c, primary_slot_config, slots, overflow_checks)} :
            IF r.panic THEN Panic
            ELSE CpuAndSlots([pop_store(r.cpu, opcode, r.value)
                                 EXCEPT !.pc = (@ + stack_length(opcode)) % 65536],
                             slots)

\* Z80::get_ix_d / get_iy_d: the index register plus d as i8 as u16, wrapping.
get_index_d(index, d) == (index + (IF d >= 128 THEN d + \hFF00 ELSE d)) % 65536

\* Z80::execute, the arms under 0xDD (prefix = "ix") and 0xFD (prefix = "iy"):
\* pc was advanced once to read the second byte, and each arm advances it as
\* the code does. The arm DD E5 (PUSH IX) pushes self.iy.
execute_index(c, prefix, second) ==
    CASE second = \hBE ->
           \E d \in {read_byte(primary_slot_config, slots, (c.pc + 2) % 65536,
                               overflow_checks)} :
              IF d.panic THEN Panic
              ELSE \E v \in {read_byte(primary_slot_config, slots,
                                       get_index_d(IF prefix = "ix" THEN c.ix ELSE c.iy,
                                                   d.value),
                                       overflow_checks)} :
                      IF v.panic THEN Panic
                      ELSE CpuAndSlots([cp(c, v.value) EXCEPT !.pc = (@ + 4) % 65536],
                                       slots)
      [] second = \hE5 ->
           \E r \in {push(c, primary_slot_config, slots, c.iy, overflow_checks)} :
              IF r.panic THEN Panic
              ELSE CpuAndSlots([r.cpu EXCEPT !.pc = (@ + 2) % 65536], r.slots)
      [] second = \hE1 ->
           \E r \in {pop(c, primary_slot_config, slots, overflow_checks)} :
              IF r.panic THEN Panic
              ELSE CpuAndSlots([(IF prefix = "ix" THEN [r.cpu EXCEPT !.ix = r.value]
                                                  ELSE [r.cpu EXCEPT !.iy = r.value])
                                   EXCEPT !.pc = (@ + 2) % 65536],
                               slots)

\* The loop of the LDIR arm: while count != 0 { write_byte(dst, read_byte(src));
\* src, dst advance by one and count falls by one, all wrapping }.
\* [panic, src, dst, count, slots]
RECURSIVE ldir_loop(_, _, _, _, _, _)
RECURSIVE ldir_read(_, _, _, _, _, _, _)
RECURSIVE ldir_stored(_, _, _, _, _, _)
ldir_loop(count, src, dst, s, sl, checks) ==
    IF count = 0
    THEN [panic |-> FALSE, src |-> src, dst |-> dst, count |-> count, slots |-> sl]
    ELSE ldir_read(read_byte(s, sl, src, checks), count, src, dst, s, sl, checks)

\* The loop once read_byte(src) returned r.
ldir_read(r, count, src, dst, s, sl, checks) ==
    IF r.panic
    THEN [panic |-> TRUE, src |-> src, dst |-> dst, count |-> count, slots |-> sl]
    ELSE ldir_stored(write_byte(s, sl, dst, r.value, checks), count, src, dst, s, checks)

\* The loop once write_byte(dst, value) returned w.
ldir_stored(w, count, src, dst, s, checks) ==
    IF w.panic
    THEN [panic |-> TRUE, src |-> src, dst |-> dst, count |-> count, slots |-> w.slots]
    ELSE ldir_loop((count + 65535) % 65536, (src + 1) % 65536, (dst + 1) % 65536,
                   s, w.slots, checks)

\* The registers after the loop, with DE left as it was.
ldir_registers_without_de(c, r) ==
    [set_bc(set_hl(c, r.src), r.count)
        EXCEPT !.f = set_flags(c.f, << <<FlagP, FALSE>>, <<FlagH, FALSE>>,
                                       <<FlagN, FALSE>> >>)]

\* The registers after the loop: set_hl(src); set_de(dst); set_bc(count);
\* P, H and N cleared.
ldir_registers(c, r) ==
    [set_bc(set_de(set_hl(c, r.src), r.dst), r.count)
        EXCEPT !.f = set_flags(c.f, << <<FlagP, FALSE>>, <<FlagH, FALSE>>,
                                       <<FlagN, FALSE>> >>)]

\* Z80::execute, the arm ED B0 (LDIR)
execute_ldir(c) ==
    \E r \in {ldir_loop(get_bc(c), get_hl(c), get_de(c), primary_slot_config, slots,
                        overflow_checks)} :
       IF r.panic THEN Panic
       ELSE CpuAndSlots([ldir_registers(c, r) EXCEPT !.pc = (@ + 2) % 65536], r.slots)

\* Z80::execute, the arm ED 42 (SBC HL, BC), the registers: hl, bc and carry
\* are u16; bc + carry in the assignment of C is a u16 addition. [panic, cpu]
sbc_hl_bc(c, checks) ==
    LET hl == get_hl(c)
        bc == get_bc(c)
        carry == carry_in(c.f)
        result == (hl + 65536 - bc + 65536 - carry) % 65536
    IN IF bc + carry > \hFFFF /\ checks THEN [panic |-> TRUE, cpu |-> c]
       ELSE [panic |-> FALSE,
             cpu |-> [set_hl(c, result) EXCEPT !.f =
                        set_flags(c.f,
                            << <<FlagS, BitAnd(result, \h8000) # 0>>,
                               <<FlagZ, result = 0>>,
                               <<FlagH, BitAnd(hl, \h0FFF) < BitAnd(bc, \h0FFF) + carry>>,
                               <<FlagP, BitAnd(hl, \h7FFF) < BitAnd(bc, \h7FFF) + carry>>,
                               <<FlagN, TRUE>>,
                               <<FlagC, hl < (bc + carry) % 65536>> >>)]]

\* Z80::execute, the arm ED 42 (SBC HL, BC)
execute_sbc_hl(c) ==
    \E r \in {sbc_hl_bc(c, overflow_checks)} :
       IF r.panic THEN Panic
       ELSE /\ cpu' = [r.cpu EXCEPT !.pc = (@ + 2) % 65536]
            /\ UNCHANGED <<busvars, vdpvars, nresets, panicked>>

\* The register an opcode field n names: 0 B, 1 C, 2 D, 3 E, 4 H, 5 L, 7 A.
register(c, n) ==
    CASE n = 0 -> c.b [] n = 1 -> c.c [] n = 2 -> c.d [] n = 3 -> c.e
      [] n = 4 -> c.h [] n = 5 -> c.l [] n = 7 -> c.a

\* The CPU with value assigned to the register an opcode field n names.
set_register(c, n, value) ==
    CASE n = 0 -> [c EXCEPT !.b = value] [] n = 1 -> [c EXCEPT !.c = value]
      [] n = 2 -> [c EXCEPT !.d = value] [] n = 3 -> [c EXCEPT !.e = value]
      [] n = 4 -> [c EXCEPT !.h = value] [] n = 5 -> [c EXCEPT !.l = value]
      [] n = 7 -> [c EXCEPT !.a = value]

\* Z80::set_inc_flags
set_inc_flags(f, value) ==
    set_flags(f, << <<FlagS, BitAnd(value, \h80) # 0>>,
                    <<FlagZ, value = 0>>,
                    <<FlagH, BitAnd(value, \h0F) = 0>>,
                    <<FlagP, value = \h80>>,
                    <<FlagN, FALSE>> >>)

\* Z80::dec [value, f]
dec(f, value) ==
    LET result == wrapping_sub8(value, 1)
        carry == BitAnd(value, \h0F) < BitAnd(result, \h0F)
        overflow == BitAnd(BitAnd(BitXor(value, result), BitXor(value, 1)), \h80) # 0
    IN [value |-> result,
        f |-> set_flags(f, << <<FlagZ, result = 0>>,
                              <<FlagS, BitAnd(result, \h80) # 0>>,
                              <<FlagH, carry>>,
                              <<FlagP, overflow>>,
                              <<FlagN, TRUE>> >>)]

\* A byte stored by the write w. [panic, slots, value]
stored(w, value) == [panic |-> w.panic, slots |-> w.slots, value |-> value]

\* The write of INC (HL) / DEC (HL) once read_byte(hl) returned r: the byte plus
\* delta, wrapping, stored at hl. [panic, slots, value]
stored_hl(r, c, delta) ==
    IF r.panic THEN [panic |-> TRUE, slots |-> slots, value |-> 0]
    ELSE stored(write_byte(primary_slot_config, slots, get_hl(c),
                           (r.value + delta) % 256, overflow_checks),
                (r.value + delta) % 256)

\* Z80::inc_hl: the byte at HL plus one, stored back, with set_inc_flags.
\* [panic, cpu, slots]
inc_hl(c) ==
    \E w \in {stored_hl(read_byte(primary_slot_config, slots, get_hl(c), overflow_checks),
                        c, 1)} :
       IF w.panic THEN Panic
       ELSE CpuAndSlots([c EXCEPT !.f = set_inc_flags(c.f, w.value),
                                  !.pc = (@ + 1) % 65536], w.slots)

\* Z80::dec_hl: the byte at HL minus one, stored back; no flag is assigned.
dec_hl(c) ==
    \E w \in {stored_hl(read_byte(primary_slot_config, slots, get_hl(c), overflow_checks),
                        c, 255)} :
       IF w.panic THEN Panic
       ELSE CpuAndSlots([c EXCEPT !.pc = (@ + 1) % 65536], w.slots)

\* Z80::execute, the arms INC r, INC (HL), DEC r, DEC (HL)
execute_inc_dec(c, opcode) ==
    LET n == (opcode \div 8) % 8
        OnlyCpu(new) == cpu' = new /\ UNCHANGED <<busvars, vdpvars, nresets, panicked>>
    IN CASE opcode = \h34 -> inc_hl(c)
         [] opcode = \h35 -> dec_hl(c)
         [] opcode \in IncOps \ {\h34} ->
              OnlyCpu([set_register(c, n, (register(c, n) + 1) % 256)
                          EXCEPT !.f = set_inc_flags(c.f, (register(c, n) + 1) % 256),
                                 !.pc = (@ + 1) % 65536])
         [] opcode \in DecOps \ {\h35} ->
              \E r \in {dec(c.f, register(c, n))} :
                 OnlyCpu([set_register(c, n, r.value)
                             EXCEPT !.f = r.f, !.pc = (@ + 1) % 65536])

\* The addresses where a read of memory can change its outcome: the ends of the
\* pages and of each slot's range, the cells written so far, and the start.
scan_stops(sl, start) ==
    {start, \h0000, \h3FFF, \h4000, \h7FFF, \h8000, \hBFFF, \hC000, \hFFFF}
      \cup UNION { {(sl[k].base + 65535) % 65536, sl[k].base,
                    (sl[k].base + sl[k].size + 65535) % 65536,
                    (sl[k].base + sl[k].size) % 65536} : k \in 0..3 }
      \cup UNION { {(sl[k].base + i) % 65536 : i \in DOMAIN sl[k].data} : k \in 0..3 }

\* The loop of BDOS function 9 in the arm 0xCF: read_byte from DE on, one
\* address after the other and wrapping, until the byte is '$'. It ends at the
\* first '$', panics at the first read that panics, and with neither never
\* ends. Memory holds a byte other than 0xFF and the byte of a ROM image only
\* in the cells written so far. "done", "panic" or "never"
bdos_string(s, sl, start, checks) ==
    LET distance(a) == (a + 65536 - start) % 65536
        reads == [a \in scan_stops(sl, start) |-> read_byte(s, sl, a, checks)]
        ends == {a \in DOMAIN reads : reads[a].panic \/ reads[a].value = \h24}
    IN IF ends = {} THEN "never"
       ELSE LET first == CHOOSE a \in ends : \A b \in ends : distance(a) <= distance(b)
            IN IF reads[first].panic THEN "panic" ELSE "done"

\* Z80::execute, the arm 0xCF: BDOS function 2 prints E, function 9 prints the
\* string at DE, any other value of C panics; then pc advances by one. Nothing
\* is pushed and pc is not set to 0x0008. A string that never ends leaves the
\* step without a successor.
execute_bdos(c) ==
    CASE c.c = \h02 ->
           /\ cpu' = [c EXCEPT !.pc = (@ + 1) % 65536]
           /\ UNCHANGED <<busvars, vdpvars, nresets, panicked>>
      [] c.c = \h09 ->
           \E r \in {bdos_string(primary_slot_config, slots, get_de(c), overflow_checks)} :
              IF r = "panic" THEN Panic
              ELSE /\ r = "done"
                   /\ cpu' = [c EXCEPT !.pc = (@ + 1) % 65536]
                   /\ UNCHANGED <<busvars, vdpvars, nresets, panicked>>
      [] OTHER -> Panic

\* Z80::execute, the arms 0xC7, 0xD7, 0xDF, 0xE7, 0xEF, 0xF7, 0xFF: rst(opcode - 0xC7)
execute_rst(c, opcode) ==
    \E r \in {rst(c, primary_slot_config, slots, opcode - \hC7, overflow_checks)} :
       IF r.panic THEN Panic ELSE CpuAndSlots(r.cpu, r.slots)

\* A byte as i8, and a u16 as i16.
as_i8(byte) == IF byte >= 128 THEN byte - 256 ELSE byte
as_i16(word) == IF word >= 32768 THEN word - 65536 ELSE word
\* A signed integer as u16: sign extension and truncation.
as_u16(n) == (n + 65536 * 2) % 65536

\* Z80::execute, the arm 0x18 (JR e), once the offset byte was read:
\* pc = (pc + 1).wrapping_add(offset as u16 + 1), the sum a u16 addition.
\* [panic, cpu]
jr(c, byte, checks) ==
    IF as_u16(as_i8(byte)) + 1 > \hFFFF /\ checks THEN [panic |-> TRUE, cpu |-> c]
    ELSE [panic |-> FALSE,
          cpu |-> [c EXCEPT !.pc = (((c.pc + 1) % 65536)
                                      + ((as_u16(as_i8(byte)) + 1) % 65536)) % 65536]]

\* The condition of an arm JR cc, e.
jr_condition(f, opcode) ==
    CASE opcode = \h20 -> ~get_flag(f, FlagZ)
      [] opcode = \h28 -> get_flag(f, FlagZ)
      [] opcode = \h30 -> ~get_flag(f, FlagC)
      [] opcode = \h38 -> get_flag(f, FlagC)

\* Z80::execute, the arms 0x20, 0x28, 0x30, 0x38 (JR cc, e), once the offset
\* byte was read: pc advances by 2 and, if the condition holds,
\* pc = (pc as i16 + offset as i16) as u16, an i16 addition. [panic, cpu]
jr_cc(c, opcode, byte, checks) ==
    LET pc2 == (c.pc + 2) % 65536
        sum == as_i16(pc2) + as_i8(byte)
    IN IF ~jr_condition(c.f, opcode) THEN [panic |-> FALSE, cpu |-> [c EXCEPT !.pc = pc2]]
       ELSE IF (sum > 32767 \/ sum < -32768) /\ checks THEN [panic |-> TRUE, cpu |-> c]
       ELSE [panic |-> FALSE, cpu |-> [c EXCEPT !.pc = as_u16(sum)]]

\* Z80::execute, the arm 0x10 (DJNZ e), once the offset byte was read:
\* displacement = offset + 2, an i8 addition; b = b.wrapping_sub(1); if b != 0
\* pc = pc.wrapping_add(displacement as u16), else pc advances by 2. [panic, cpu]
djnz(c, byte, checks) ==
    LET sum == as_i8(byte) + 2
        displacement == as_i8((sum + 256) % 256)
        b == wrapping_sub8(c.b, 1)
    IN IF sum > 127 /\ checks THEN [panic |-> TRUE, cpu |-> c]
       ELSE [panic |-> FALSE,
             cpu |-> [c EXCEPT !.b = b,
                               !.pc = IF b # 0 THEN (c.pc + as_u16(displacement)) % 65536
                                      ELSE (c.pc + 2) % 65536]]

\* The relative jump an opcode names, on the offset byte read. [panic, cpu]
relative(c, opcode, byte, checks) ==
    CASE opcode = \h10 -> djnz(c, byte, checks)
      [] opcode = \h18 -> jr(c, byte, checks)
      [] opcode \in JrCcOps -> jr_cc(c, opcode, byte, checks)

\* Z80::execute, the arms DJNZ e, JR e and JR cc, e
execute_relative(c, opcode) ==
    \E o \in {read_byte(primary_slot_config, slots, (c.pc + 1) % 65536, overflow_checks)} :
       IF o.panic THEN Panic
       ELSE \E r \in {relative(c, opcode, o.value, overflow_checks)} :
               IF r.panic THEN Panic
               ELSE /\ cpu' = r.cpu
                    /\ UNCHANGED <<busvars, vdpvars, nresets, panicked>>

\* The byte Z80::ld_hl_b, ld_hl_c, ld_hl_d, ld_hl_e, ld_hl_h, ld_hl_l and
\* ld_hl_a hand to write_byte: the register of the name, except that ld_hl_e
\* hands over self.h.
ld_hl_source(c, opcode) ==
    CASE opcode = \h70 -> c.b
      [] opcode = \h71 -> c.c
      [] opcode = \h72 -> c.d
      [] opcode = \h73 -> c.h
      [] opcode = \h74 -> c.h
      [] opcode = \h75 -> c.l
      [] opcode = \h77 -> c.a

\* Z80::execute, the arms 0x70..0x75 and 0x77 (LD (HL), r):
\* write_byte(get_hl(), register), then pc advances by one.
execute_ld_hl(c, opcode) ==
    \E w \in {write_byte(primary_slot_config, slots, get_hl(c), ld_hl_source(c, opcode),
                         overflow_checks)} :
       IF w.panic THEN Panic
       ELSE CpuAndSlots([c EXCEPT !.pc = (@ + 1) % 65536], w.slots)

\* The flags the rotate and shift arms under 0xCB assign to a result.
shift_flags(f, result, carry) ==
    set_flags(f, << <<FlagS, BitAnd(result, \h80) # 0>>,
                    <<FlagZ, result = 0>>,
                    <<FlagH, FALSE>>,
                    <<FlagP, count_ones(result) % 2 = 0>>,
                    <<FlagN, FALSE>>,
                    <<FlagC, carry>> >>)

\* Z80::execute, the arms under 0xCB on the operand read: 0x00..=0x1F is
\* RLC r, 0x28..=0x2F SRA r, every other second byte of 0x20..=0x3F SLA r,
\* 0x40..=0x7F BIT b, r, 0x80..=0xBF RES b, r and 0xC0..=0xFF SET b, r.
\* [store, value, f]; BIT stores nothing.
cb(second, value, f) ==
    LET bit == Shr(second, 3) % 8
        mask == Pow2(bit)
        rlc == ((value * 2) % 256) + (value \div 128)
        sra == (value \div 2) + BitAnd(value, \h80)
        sla == (value * 2) % 256
    IN CASE second \in \h00..\h1F ->
              [store |-> TRUE, value |-> rlc, f |-> shift_flags(f, rlc, value >= 128)]
         [] second \in \h28..\h2F ->
              [store |-> TRUE, value |-> sra, f |-> shift_flags(f, sra, value % 2 = 1)]
         [] second \in (\h20..\h27) \cup (\h30..\h3F) ->
              [store |-> TRUE, value |-> sla, f |-> shift_flags(f, sla, value >= 128)]
         [] second \in \h40..\h7F ->
              [store |-> FALSE, value |-> value,
               f |-> set_flags(f, << <<FlagS, BitAnd(BitAnd(value, mask), \h80) # 0>>,
                                     <<FlagZ, BitAnd(value, mask) = 0>>,
                                     <<FlagH, TRUE>>,
                                     <<FlagP, BitAnd(value, mask) = 0>>,
                                     <<FlagN, FALSE>> >>)]
         [] second \in \h80..\hBF ->
              [store |-> TRUE, value |-> BitAnd(value, 255 - mask), f |-> f]
         [] second \in \hC0..\hFF ->
              [store |-> TRUE, value |-> BitOr(value, mask), f |-> f]

\* Z80::get_register_by_index [panic, value]
get_register_by_index(c, index) ==
    IF index = 6
    THEN read_byte(primary_slot_config, slots, get_hl(c), overflow_checks)
    ELSE [panic |-> FALSE, slot |-> 0, addr |-> 0, value |-> register(c, index)]

\* Z80::set_register_by_index, then the flags f and pc advanced by 2: a step.
set_register_by_index(c, index, r) ==
    IF ~r.store
    THEN CpuAndSlots([c EXCEPT !.f = r.f, !.pc = (@ + 2) % 65536], slots)
    ELSE IF index = 6
    THEN \E w \in {write_byte(primary_slot_config, slots, get_hl(c), r.value,
                              overflow_checks)} :
            IF w.panic THEN Panic
            ELSE CpuAndSlots([c EXCEPT !.f = r.f, !.pc = (@ + 2) % 65536], w.slots)
    ELSE CpuAndSlots([set_register(c, index, r.value)
                         EXCEPT !.f = r.f, !.pc = (@ + 2) % 65536], slots)

\* Z80::execute, the arm 0xCB
execute_cb(c) ==
    \E o \in {read_byte(primary_slot_config, slots, (c.pc + 1) % 65536, overflow_checks)} :
       IF o.panic THEN Panic
       ELSE \E v \in {get_register_by_index(c, o.value % 8)} :
               IF v.panic THEN Panic
               ELSE set_register_by_index(c, o.value % 8, cb(o.value, v.value, c.f))

\* u16::from_le_bytes([low, high]) of two bytes read. [panic, value]
from_le_bytes(low, high) ==
    [panic |-> low.panic \/ high.panic, value |-> high.value * 256 + low.value]

\* The operand the arms DD 21, FD 22 and FD 2A build: pc was advanced once, to
\* the second byte of the instruction, and both read_byte(self.pc) calls read
\* that byte. [panic, value]
index_operand(c) ==
    from_le_bytes(read_byte(primary_slot_config, slots, (c.pc + 1) % 65536, overflow_checks),
                  read_byte(primary_slot_config, slots, (c.pc + 1) % 65536, overflow_checks))

\* Z80::execute, the arms DD 21 (LD IX, nn), FD 22 (LD (nn), IY) and FD 2A
\* (ix = read_word(nn)): pc advances by 1 and then by 3.
execute_index_load(c, second) ==
    \E n \in {index_operand(c)} :
       IF n.panic THEN Panic
       ELSE CASE second = \h21 ->
                   CpuAndSlots([c EXCEPT !.ix = n.value, !.pc = (@ + 4) % 65536], slots)
              [] second = \h22 ->
                   \E w \in {write_word(primary_slot_config, slots, n.value, c.iy,
                                        overflow_checks)} :
                      IF w.panic THEN Panic
                      ELSE CpuAndSlots([c EXCEPT !.pc = (@ + 4) % 65536], w.slots)
              [] second = \h2A ->
                   \E r \in {read_word(primary_slot_config, slots, n.value,
                                       overflow_checks)} :
                      IF r.panic THEN Panic
                      ELSE CpuAndSlots([c EXCEPT !.ix = r.value, !.pc = (@ + 4) % 65536],
                                       slots)

\* Z80::execute(opcode), the arms of the opcodes in Translated; c is the CPU
\* with this step's cycle counted.
execute(c, opcode) ==
    LET pc1 == (c.pc + 1) % 65536
        OnlyCpu(n) == cpu' = n /\ UNCHANGED <<busvars, vdpvars, nresets, panicked>>
        second == read_byte(primary_slot_config, slots, pc1, overflow_checks)
    IN CASE opcode = \h00 -> OnlyCpu([c EXCEPT !.pc = pc1])
         [] opcode = \h76 -> OnlyCpu(halt(c))
         [] opcode = \hFB -> OnlyCpu([c EXCEPT !.pc = pc1, !.iff1 = TRUE])
         [] opcode = \hF3 -> OnlyCpu([c EXCEPT !.pc = pc1, !.iff1 = FALSE])
         [] opcode \in RstOps -> execute_rst(c, opcode)
         [] opcode = \hCF -> execute_bdos(c)
         [] opcode = \hD3 ->
              \E p \in {second} :
                 IF p.panic THEN Panic
                 ELSE /\ p.value \notin {\hA0, \hA1}
                      /\ bus_output(p.value, c.a)
                      /\ cpu' = IF panicked' THEN cpu ELSE [c EXCEPT !.pc = (@ + 2) % 65536]
                      /\ UNCHANGED <<slots, overflow_checks, last, nwrites, segments,
                                     loaded, nresets>>
         [] opcode = \hDD ->
              \E o \in {second} :
                 IF o.panic \/ o.value \notin KnownDD THEN Panic
                 ELSE IF o.value \in IndexOps THEN execute_index(c, "ix", o.value)
                 ELSE o.value = \h21 /\ execute_index_load(c, o.value)
         [] opcode = \hFD ->
              \E o \in {second} :
                 IF o.panic THEN Panic
                 ELSE IF o.value \in IndexOps THEN execute_index(c, "iy", o.value)
                 ELSE IF o.value \in {\h22, \h2A} THEN execute_index_load(c, o.value)
                 ELSE /\ o.value \notin KnownFD \ {\hAF}
                      /\ OnlyCpu([c EXCEPT !.pc = pc1])
         [] opcode = \hED ->
              \E o \in {second} :
                 IF o.panic \/ o.value \notin KnownED THEN Panic
                 ELSE IF o.value = \hB0 THEN execute_ldir(c)
                 ELSE o.value = \h42 /\ execute_sbc_hl(c)
         [] opcode \in IncOps \cup DecOps -> execute_inc_dec(c, opcode)
         [] opcode \in RelativeOps -> execute_relative(c, opcode)
         [] opcode \in LdHlOps -> execute_ld_hl(c, opcode)
         [] opcode = \hCB -> execute_cb(c)
         [] opcode \in AluOps -> execute_alu(c, opcode)
         [] opcode \in PushOps \cup PopOps -> execute_stack(c, opcode)
         [] opcode \in UnknownPrimary -> Panic

\* Z80::execute_cycle, called by Msx::step
execute_cycle ==
    /\ ~panicked
    /\ cpu.cycles < MaxCycles
    /\ LET c == [cpu EXCEPT !.cycles = @ + 1] IN
       IF cpu.halted THEN
           cpu' = c /\ UNCHANGED <<busvars, vdpvars, nresets, panicked>>
       ELSE IF c.max_cycles # None /\ c.cycles >= c.max_cycles THEN Panic
       ELSE IF c.interrupt_request /\ c.iff1 THEN
           \E r \in {accept_interrupt(c, primary_slot_config, slots, overflow_checks)} :
              IF r.panic THEN Panic
              ELSE /\ cpu' = r.cpu
                   /\ slots' = r.slots
                   /\ UNCHANGED <<primary_slot_config, wrote_to_ppi, ppi_since_poll,
                                  overflow_checks, last, last_select, nwrites, segments,
                                  loaded, vdpvars, nresets, panicked>>
       ELSE \E f \in {Fetched} :
              IF f.panic THEN Panic
              ELSE f.value \in Translated /\ execute(c, f.value)

\* Msx::step, called on the machine directly: cpu.execute_cycle(). The scanline
\* counter it advances is not part of the model.
Step == execute_cycle /\ UNCHANGED runvars

\* MRUList::push(item), called on the list directly.
Push(item) ==
    /\ ~panicked
    /\ instructions' = MRUList_push(instructions, item)
    /\ last_push' = [item |-> item, before |-> instructions.items]
    /\ UNCHANGED <<runner, step_output, ppi_edge, busvars, vdpvars, cpuvars, panicked>>

\* Msx::reset: cpu.reset(), which ends with bus.reset(), and bus.reset() again.
\* [cpu, vdp, primary_slot_config]
Msx_reset(c, v, config) ==
    [cpu |-> Z80_reset(c),
     vdp |-> TMS9918_reset(TMS9918_reset(v)),
     primary_slot_config |-> ppi_reset(ppi_reset(config))]

\* Msx::reset
Reset ==
    /\ ~panicked
    /\ nresets < MaxResets
    /\ nresets' = nresets + 1
    /\ \E r \in {Msx_reset(cpu, vdp, primary_slot_config)} :
       /\ cpu' = r.cpu
       /\ vdp' = r.vdp
       /\ primary_slot_config' = r.primary_slot_config
    /\ hist' = <<>>
    /\ last' = [NoCall EXCEPT !.op = "reset"]
    /\ UNCHANGED <<slots, wrote_to_ppi, ppi_since_poll, overflow_checks, last_select,
                   nwrites, segments, loaded, runvars, panicked>>

\* Runner::step: instructions.push(msx.instruction()); msx.step(). The caller
\* counts the step in runner.cycles.
Runner_step ==
    /\ ~panicked
    /\ \E e \in {Msx_instruction(cpu, primary_slot_config, slots, overflow_checks)} :
       IF e.panic THEN Panic /\ UNCHANGED <<instructions, last_push, step_output>>
       ELSE /\ execute_cycle
            /\ instructions' = MRUList_push(instructions, e.entry)
            /\ last_push' = [item |-> e.entry, before |-> instructions.items]
            /\ step_output' = (~panicked' /\ executes_ppi_output(cpu, primary_slot_config,
                                                                slots, overflow_checks))

\* Runner::run up to its loop: running = true. No openMSX client is started.
RunStart ==
    /\ ~panicked
    /\ runner.at = "built"
    /\ runner' = [runner EXCEPT !.running = TRUE, !.at = "step"]
    /\ UNCHANGED <<instructions, last_push, step_output, ppi_edge, busvars, vdpvars,
                   cpuvars, panicked>>

\* The run loop: let mut stop = self.step()?
RunStep ==
    /\ runner.at = "step"
    /\ Runner_step
    /\ runner' = IF panicked' THEN runner
                 ELSE [runner EXCEPT !.cycles = @ + 1, !.at = "checks"]
    /\ ppi_edge' = (panicked' /\ ppi_edge)

\* The run loop after its step: the break conditions in the order of the code
\* (halt, PPI write, breakpoint, cycle limit), then the prompt when one of them
\* stops the run, else the end of the loop body. at_ppi_write() is called only
\* when break_on_ppi_write is set; at_cycles_limit() clears the limit it hits.
\* stop_next is never set.
RunChecks ==
    /\ ~panicked
    /\ runner.at = "checks"
    /\ LET poll == runner.break_on_ppi_write
           at_limit == runner.max_cycles # None /\ runner.cycles >= runner.max_cycles
           stop == \/ ~runner.running
                   \/ (runner.break_on_halt /\ cpu.halted)
                   \/ (poll /\ wrote_to_ppi)
                   \/ cpu.pc \in runner.breakpoints
                   \/ at_limit
       IN /\ IF poll THEN Msx_wrote_to_ppi
             ELSE UNCHANGED <<wrote_to_ppi, last, ppi_since_poll>>
          /\ ppi_edge' = (poll /\ wrote_to_ppi)
          /\ runner' = [runner EXCEPT
                           !.max_cycles = IF at_limit THEN None ELSE @,
                           !.at = IF stop THEN "prompt"
                                  ELSE IF cpu.halted \/ ~runner.running THEN "done"
                                  ELSE "step"]
    /\ UNCHANGED <<primary_slot_config, slots, overflow_checks, last_select, nwrites,
                   segments, loaded, vdpvars, cpuvars, instructions, last_push,
                   step_output, panicked>>

\* handle_command, Command::Step(n): the command is read; its n steps follow.
PromptStep(n) ==
    /\ ~panicked
    /\ runner.at = "prompt"
    /\ runner' = [runner EXCEPT !.at = "stepping", !.pending = n]
    /\ UNCHANGED <<instructions, last_push, step_output, ppi_edge, busvars, vdpvars,
                   cpuvars, panicked>>

\* handle_command, Command::Step(n): one self.step() of its loop; after the
\* last one the state is dumped and the prompt reads the next command.
StepN ==
    /\ runner.at = "stepping"
    /\ Runner_step
    /\ runner' = IF panicked' THEN runner
                 ELSE [runner EXCEPT !.cycles = @ + 1, !.pending = @ - 1,
                                     !.at = IF runner.pending = 1 THEN "prompt"
                                            ELSE "stepping"]
    /\ ppi_edge' = (panicked' /\ ppi_edge)

\* handle_command, Command::Continue: the prompt ends and with it the loop
\* body, which leaves the loop when the machine is halted.
PromptContinue ==
    /\ ~panicked
    /\ runner.at = "prompt"
    /\ runner' = [runner EXCEPT !.max_cycles = None, !.running = TRUE,
                                !.at = IF cpu.halted THEN "done" ELSE "step"]
    /\ UNCHANGED <<instructions, last_push, step_output, ppi_edge, busvars, vdpvars,
                   cpuvars, panicked>>

\* handle_command, Command::Quit: running = false, which ends prompt and loop.
PromptQuit ==
    /\ ~panicked
    /\ runner.at = "prompt"
    /\ runner' = [runner EXCEPT !.running = FALSE, !.at = "done"]
    /\ UNCHANGED <<instructions, last_push, step_output, ppi_edge, busvars, vdpvars,
                   cpuvars, panicked>>

\* handle_command, Command::Reset: self.msx.reset(); the prompt goes on.
PromptReset == runner.at = "prompt" /\ Reset

-----------------------------------------------------------------------------
(* Specifications *)

\* The bus under slot-select writes and memory accesses.
NextBus ==
    \/ \E port \in OutPorts, data \in SelectBytes : Output(port, data)
    \/ \E addr \in BusAddrs : ReadByte(addr)
    \/ \E addr \in BusAddrs, data \in StoreBytes : WriteByte(addr, data)

SpecBus == Init /\ [][NextBus]_vars

\* The address map as a function of the slot-select byte.
NextMap ==
    \/ MemorySegmentsCall
    \/ \E addr \in Addrs : TranslateCall(addr)

SpecMap == InitMap /\ [][NextMap]_vars

\* The VDP under port reads and writes.
NextVdp ==
    \/ \E port \in VdpPorts : VdpRead(port)
    \/ \E data \in DataBytes : VdpWrite(\h98, data)
    \/ \E data \in CtrlBytes : VdpWrite(\h99, data)

SpecVdp == Init /\ [][NextVdp]_vars

\* The I/O ports of the bus and the PPI-write flag.
NextIo ==
    \/ \E port \in IoPorts, data \in IoBytes : Output(port, data)
    \/ \E port \in IoPorts : Input(port)
    \/ WroteToPpiCall

SpecIo == Init /\ [][NextIo]_vars

\* The CPU stepping through a stored program, with interrupts and resets.
NextCpu ==
    \/ Step
    \/ RequestInterrupt
    \/ Reset

SpecCpu == InitProgram /\ [][NextCpu]_vars

\* Slots replaced by loaded ROM images.
NextLoad ==
    \/ \E slot \in 0..3, len \in RomLens : LoadRom(slot, len)
    \/ \E slot \in 0..3, len \in RomLens : RomSlotLoad(slot, len, \h4000, \h4000)

SpecLoad == Init /\ [][NextLoad]_vars

\* The CPU executing one arithmetic or logic instruction on chosen registers.
NextAlu == Step

SpecAlu == InitAlu /\ [][NextAlu]_vars

\* The CPU executing PUSH, POP and indexed compare instructions.
NextStack == Step

SpecStack == InitStack /\ [][NextStack]_vars

\* The CPU executing LDIR.
NextLdir == Step

SpecLdir == InitLdir /\ [][NextLdir]_vars

\* The CPU executing SBC HL, BC.
NextSbcHl == Step

SpecSbcHl == InitSbcHl /\ [][NextSbcHl]_vars

\* The CPU executing one 8-bit INC or DEC.
NextIncDec == Step

SpecIncDec == InitIncDec /\ [][NextIncDec]_vars

\* The CPU executing RST.
NextRst == Step

SpecRst == InitRst /\ [][NextRst]_vars

\* The CPU executing a relative jump.
NextRelative == Step

SpecRelative == InitRelative /\ [][NextRelative]_vars

\* The CPU executing LD (HL), r.
NextLdHl == Step

SpecLdHl == InitLdHl /\ [][NextLdHl]_vars

\* The CPU executing a 0xCB-prefixed instruction.
NextCb == Step

SpecCb == InitCb /\ [][NextCb]_vars

\* The CPU executing a 16-bit load of IX or IY.
NextIndexLoad == Step

SpecIndexLoad == InitIndexLoad /\ [][NextIndexLoad]_vars

\* An MRUList under pushes.
NextMru == \E item \in LogItems : Push(item)

SpecMru == InitMru /\ [][NextMru]_vars

\* The runner's loop and the commands of its prompt.
NextRunner ==
    \/ RunStart
    \/ RunStep
    \/ RunChecks
    \/ \E n \in 1..MaxStepArg : PromptStep(n)
    \/ StepN
    \/ PromptContinue
    \/ PromptQuit
    \/ PromptReset

SpecRunner == InitRunner /\ [][NextRunner]_vars

-----------------------------------------------------------------------------
(* Properties of the bus *)

IsAccess(call) == call.op \in {"read_byte", "write_byte"}

C2_SelectTakesEffect ==
    [][ /\ IsAccess(last') => last'.slot = page_slot(last_select', last'.addr)
        /\ nwrites' = nwrites + 1 =>
              \A b \in BusAddrs :
                  page_slot(last_select, b) # page_slot(last_select, last'.addr) =>
                      read_byte(primary_slot_config', slots', b, overflow_checks')
                          = read_byte(primary_slot_config, slots, b, overflow_checks)
      ]_vars

\* Slot 3 selected for page 3 and written at 0xC000: 0x4000 still reads the ROM.
C2_Witness ==
    /\ last_select = \hC0
    /\ Cell(slots[3], \hC000) = \h55
    /\ last.op = "read_byte"
    /\ last.addr = \h4000
    /\ last.slot = 0
    /\ last.value = \hAA

SlotOfPage(s, p) == BitAnd(Shr(s, 2 * p), 3)

\* C3: memory_segments() returns segments in ascending order that partition
\* 0x0000..0xFFFF on page boundaries, each with the slot of every page it covers,
\* neighbours on different slots, 1 + (number of pages whose slot differs from
\* the page below) of them.
C3_SegmentsPartition ==
    segments # <<>> =>
        LET s == primary_slot_config
            n == Len(segments)
        IN /\ segments[1].start = 0
           /\ segments[n].end = \hFFFF
           /\ \A i \in 1..n :
                 /\ segments[i].start % \h4000 = 0
                 /\ (segments[i].end + 1) % \h4000 = 0
                 /\ segments[i].start < segments[i].end
                 /\ segments[i].slot \in 0..3
           /\ \A i \in 2..n :
                 /\ segments[i].start = segments[i - 1].end + 1
                 /\ segments[i].slot # segments[i - 1].slot
           /\ \A p \in 0..3 : \A i \in 1..n :
                 (segments[i].start <= p * \h4000 /\ p * \h4000 <= segments[i].end)
                     => segments[i].slot = SlotOfPage(s, p)
           /\ n = 1 + Cardinality({p \in 1..3 : SlotOfPage(s, p) # SlotOfPage(s, p - 1)})

\* memory_segments() returned the three segments of S = 0b00_11_00_00.
C3_Witness ==
    /\ primary_slot_config = \h30
    /\ Len(segments) = 3
    /\ segments[2].start = \h8000
    /\ segments[2].end = \hBFFF
    /\ segments[2].slot = 3

\* C4: translate_address(a) returns (slot, a - start + base) for the segment
\* (start, base, slot) that holds a.
C4_RelativeAddress ==
    last.op = "translate_address" =>
        \E i \in 1..Len(SegmentsOf[primary_slot_config]) :
            LET seg == SegmentsOf[primary_slot_config][i] IN
            /\ seg.start <= last.addr
            /\ last.addr <= seg.end
            /\ last.slot = seg.slot
            /\ last.saddr = last.addr - seg.start + seg.base

\* C5: read_byte always returns a byte and write_byte always completes: no bus
\* access panics, whichever slots are installed and selected.
C5_NoPanic == ~panicked

-----------------------------------------------------------------------------
(* Properties of the VDP *)

IsWrite99(e) == e.op = "write" /\ e.port = \h99
IsRead98(e) == e.op = "read" /\ e.port = \h98

\* The step is a write to port 0x99 that completes a command whose first byte
\* was the write before it.
SecondByteStep ==
    /\ hist # <<>>
    /\ IsWrite99(hist[Len(hist)])
    /\ hist[Len(hist)].latch = None
    /\ Len(hist') = Len(hist) + 1
    /\ IsWrite99(hist'[Len(hist')])

\* C6: after any sequence of VDP port operations from reset, 0 <= address < 0x4000.
C6_AddressInRange == vdp.address >= 0 /\ vdp.address < \h4000

\* C7: port 0x99 written with L and then d, d & 0x80 = 0, sets address to
\* (L | ((d & 0x3F) << 8)) & 0x3FFF, advanced by one in read mode (d & 0x40 = 0),
\* and modifies no control register.
C7_PointerCommand ==
    [][ SecondByteStep =>
          LET L == hist[Len(hist)].data
              d == hist'[Len(hist')].data
              p == BitAnd(BitOr(L, Shl(BitAnd(d, \h3F), 8)), \h3FFF)
          IN BitAnd(d, \h80) = 0 =>
                /\ vdp'.address = IF BitAnd(d, \h40) = 0 THEN (p + 1) % \h4000 ELSE p
                /\ vdp'.registers = vdp.registers
      ]_vars

\* C8: port 0x99 written with L and then d, d & 0x80 # 0, stores L in control
\* register d & 0x07, leaves the other registers unchanged, the latch absent and
\* the low byte of the address equal to L.
C8_RegisterCommand ==
    [][ SecondByteStep =>
          LET L == hist[Len(hist)].data
              d == hist'[Len(hist')].data
          IN BitAnd(d, \h80) # 0 =>
                /\ vdp'.registers = [vdp.registers EXCEPT ![BitAnd(d, \h07)] = L]
                /\ vdp'.first_write = None
                /\ BitAnd(vdp'.address, \hFF) = L
      ]_vars

\* Operations i, i + 1 are a read-mode pointer command: 0x99 written with p & 0xFF
\* and then (p >> 8) & 0x3F, the latch absent before.
ReadPointerAt(i) ==
    /\ i + 1 <= Len(hist)
    /\ IsWrite99(hist[i])
    /\ hist[i].latch = None
    /\ IsWrite99(hist[i + 1])
    /\ BitAnd(hist[i + 1].data, \hC0) = 0

PointerOf(i) == BitOr(hist[i].data, Shl(BitAnd(hist[i + 1].data, \h3F), 8))

\* C9: after a read-mode pointer command to p, the first read of port 0x98
\* returns VRAM[p] and the second VRAM[(p + 1) & 0x3FFF], and the command leaves
\* the status register as it was.
C9_ReadAhead ==
    \A i \in 1..Len(hist) :
        ReadPointerAt(i) =>
            /\ hist[i + 1].status = hist[i].status
            /\ (Len(hist) = i + 2 /\ IsRead98(hist[i + 2])) =>
                   hist[i + 2].ret = vram_at(vdp, PointerOf(i))
            /\ (Len(hist) = i + 3 /\ IsRead98(hist[i + 2]) /\ IsRead98(hist[i + 3])) =>
                   hist[i + 3].ret = vram_at(vdp, BitAnd(PointerOf(i) + 1, \h3FFF))

\* C10: the latch is present exactly when the most recent port operation was a
\* write to 0x99 that found it absent, and then it holds the byte written.
C10_LatchProtocol ==
    /\ vdp.first_write # None <=>
          (hist # <<>> /\ IsWrite99(hist[Len(hist)]) /\ hist[Len(hist)].latch = None)
    /\ vdp.first_write # None => vdp.first_write = hist[Len(hist)].data

\* A data-port read came between the two bytes of a command, and the write to
\* 0x99 after it is a first byte again.
C10_Witness ==
    /\ Len(hist) = 3
    /\ IsWrite99(hist[1])
    /\ IsRead98(hist[2])
    /\ IsWrite99(hist[3])
    /\ hist[3].latch = None
    /\ vdp.first_write = hist[3].data

\* The step is a read of port 0x99.
StatusReadStep ==
    /\ Len(hist') = Len(hist) + 1
    /\ hist'[Len(hist')].op = "read"
    /\ hist'[Len(hist')].port = \h99

\* C11: a read of port 0x99 returns the status held before the read, clears
\* bit 7 of status and the latch, and leaves address, data_pre_read, VRAM and
\* the control registers unchanged; a status read right after another returns
\* the first value with bit 7 cleared.
C11_StatusRead ==
    [][ StatusReadStep =>
          /\ hist'[Len(hist')].ret = vdp.status
          /\ vdp'.status = BitAnd(vdp.status, \h7F)
          /\ vdp'.first_write = None
          /\ vdp'.address = vdp.address
          /\ vdp'.data_pre_read = vdp.data_pre_read
          /\ vdp'.vram = vdp.vram
          /\ vdp'.registers = vdp.registers
          /\ (hist # <<>> /\ hist[Len(hist)].op = "read" /\ hist[Len(hist)].port = \h99) =>
                 hist'[Len(hist')].ret = BitAnd(hist[Len(hist)].ret, \h7F)
      ]_vars

\* Two status reads in a row, the first of which found bit 7 set.
C11_Witness ==
    /\ Len(hist) >= 2
    /\ hist[Len(hist) - 1].op = "read" /\ hist[Len(hist) - 1].port = \h99
    /\ hist[Len(hist)].op = "read" /\ hist[Len(hist)].port = \h99
    /\ hist[Len(hist) - 1].ret >= \h80
    /\ hist[Len(hist)].ret = hist[Len(hist) - 1].ret - \h80
    /\ vdp.status = hist[Len(hist)].ret

\* The display mode selected by the mode bits of R0 and R1.
ModeOfRegisters(registers) ==
    LET m == BitOr(Shr(BitAnd(registers[0], \h0E), 1), Shl(BitAnd(registers[1], \h18), 2))
    IN CASE m = 0 -> "Graphic1"
         [] m = 1 -> "Graphic2"
         [] m = 8 -> "Text1"
         [] m = 16 -> "Multicolor"
         [] OTHER -> "Text1"

\* C12: after every register command (second byte d, d & 0x80 # 0) that targets
\* R0 or R1, the first after construction and one that rewrites the value held
\* included, display_mode is the mode selected by the mode bits of R0 and R1.
C12_DisplayMode ==
    [][ SecondByteStep =>
          LET d == hist'[Len(hist')].data
          IN (BitAnd(d, \h80) # 0 /\ BitAnd(d, \h07) \in {0, 1}) =>
                vdp'.display_mode = ModeOfRegisters(vdp'.registers)
      ]_vars

-----------------------------------------------------------------------------
(* Properties of the CPU *)

\* The step is a call of execute_cycle: it counts a cycle, or it ends in a panic.
StepTaken == cpu'.cycles = cpu.cycles + 1 \/ (panicked' /\ ~panicked)

\* At the start of the step the CPU would take a pending interrupt.
InterruptDue == cpu.interrupt_request /\ cpu.iff1

\* C13: a step that starts not halted with a request pending and IFF1 true
\* executes no instruction: it stores the pre-step PC little-endian at
\* SP-2..SP-1, sets SP to SP-2 and PC to 0x0038, clears IFF1, IFF2 and the
\* pending request and leaves halted false.
C13_InterruptAcceptance ==
    [][ (StepTaken /\ ~cpu.halted /\ InterruptDue) =>
          /\ ~panicked'
          /\ cpu' = [cpu EXCEPT !.sp = (@ + 65534) % 65536, !.pc = \h0038,
                                !.iff1 = FALSE, !.iff2 = FALSE,
                                !.interrupt_request = FALSE, !.halted = FALSE,
                                !.cycles = @ + 1]
          /\ read_byte(primary_slot_config', slots', cpu'.sp, overflow_checks).value
                = cpu.pc % 256
          /\ read_byte(primary_slot_config', slots', (cpu'.sp + 1) % 65536,
                       overflow_checks).value = cpu.pc \div 256
          /\ UNCHANGED <<primary_slot_config, wrote_to_ppi, vdpvars>>
      ]_vars

\* EI at address 0 ran, and the interrupt requested then was taken at PC = 1.
C13_Witness ==
    /\ Cell(slots[0], 0) = \hFB
    /\ cpu.cycles = 2
    /\ cpu.pc = \h0038
    /\ cpu.sp = \hFFFD
    /\ Cell(slots[0], \hFFFD) = 1
    /\ Cell(slots[0], \hFFFE) = 0
    /\ ~cpu.iff1 /\ ~cpu.iff2 /\ ~cpu.interrupt_request /\ ~cpu.halted

\* C14: a halted CPU with IFF1 true and a request pending takes the interrupt
\* at its next step: PC becomes 0x0038 and halted is cleared.
C14_HaltedWakes ==
    [][ (StepTaken /\ cpu.halted /\ InterruptDue) =>
          (cpu'.pc = \h0038 /\ ~cpu'.halted)
      ]_vars

\* C15: HALT sets halted and advances PC by one; a step of a halted CPU with no
\* request pending only counts a cycle.
C15_Halt ==
    [][ /\ (StepTaken /\ ~cpu.halted /\ ~InterruptDue /\ Fetched.value = \h76) =>
              /\ cpu' = [cpu EXCEPT !.halted = TRUE, !.pc = (@ + 1) % 65536,
                                    !.cycles = @ + 1]
              /\ UNCHANGED <<busvars, vdpvars, panicked>>
        /\ (StepTaken /\ cpu.halted /\ ~cpu.interrupt_request) =>
              /\ cpu' = [cpu EXCEPT !.cycles = @ + 1]
              /\ UNCHANGED <<busvars, vdpvars, panicked>>
      ]_vars

\* HALT at address 1 ran at the second step, and two more steps were made.
C15_Witness ==
    /\ Cell(slots[0], 1) = \h76
    /\ cpu.halted
    /\ cpu.pc = 2
    /\ cpu.cycles = 4
    /\ ~cpu.interrupt_request

\* C16: after reset the main registers are 0xFF, the alternate registers 0,
\* SP = 0xF000, PC = 0, IFF1 and IFF2 false, IM = 0, halted false, no request
\* pending, cycles = 0, and the VDP and the PPI are in their reset state.
C16_Reset ==
    [][ nresets' = nresets + 1 =>
          /\ \A r \in {"a", "f", "b", "c", "d", "e", "h", "l"} : cpu'[r] = \hFF
          /\ \A r \in {"a_alt", "f_alt", "b_alt", "c_alt", "d_alt", "e_alt", "h_alt",
                       "l_alt"} : cpu'[r] = 0
          /\ cpu'.sp = \hF000 /\ cpu'.pc = 0
          /\ ~cpu'.iff1 /\ ~cpu'.iff2 /\ cpu'.im = 0
          /\ ~cpu'.halted /\ ~cpu'.interrupt_request /\ cpu'.cycles = 0
          /\ vdp'.vram = <<>> /\ vdp'.registers = [r \in 0..7 |-> 0]
          /\ vdp'.status = 0 /\ vdp'.address = 0 /\ vdp'.data_pre_read = 0
          /\ vdp'.first_write = None
          /\ primary_slot_config' = 0
      ]_vars

\* A reset came after OUT (0x99),A and OUT (0xA8),A had run with A = 0xFF.
C16_Witness ==
    /\ nresets = 1
    /\ last_select = \hFF
    /\ wrote_to_ppi
    /\ primary_slot_config = 0
    /\ vdp.first_write = None /\ vdp.address = 0
    /\ cpu.sp = \hF000 /\ cpu.cycles = 0 /\ cpu.a_alt = 0

-----------------------------------------------------------------------------
(* Properties of the I/O ports *)

\* The step is a call of wrote_to_ppi().
PollStep == last'.op = "wrote_to_ppi" /\ hist' = hist

\* C17: wrote_to_ppi() returns true iff an output to 0xA8..=0xAB happened since
\* the previous call (or construction), a call right after another returns
\* false, and inputs and outputs to other ports never set the flag.
C17_PpiEdge ==
    [][ /\ PollStep => /\ (last'.value = 1) <=> ppi_since_poll
                       /\ last.op = "wrote_to_ppi" => last'.value = 0
        /\ (last'.op = "input" \/ hist' # hist
              \/ (last'.op = "output" /\ ~IsPpiPort(last'.addr))) =>
              wrote_to_ppi' = wrote_to_ppi
      ]_vars

\* A call of wrote_to_ppi() returned true after an output to port 0xA8.
C17_Witness ==
    /\ last.op = "wrote_to_ppi"
    /\ last.value = 1
    /\ last_select = \hF0
    /\ ~wrote_to_ppi

\* Ports with a device behind them.
DevicePorts == {\h98, \h99, \hA0, \hA1, \hA8, \hA9, \hAA, \hAB}

\* C18: on a port with no device Bus.input returns 0xFF and Bus.output is
\* discarded; neither changes the VDP, the PPI, the slots or the PPI-write
\* flag, and neither aborts.
C18_InvalidPort ==
    [][ (last' # last /\ last'.op \in {"input", "output"}
           /\ last'.addr \notin DevicePorts) =>
          /\ last'.op = "input" => last'.value = \hFF
          /\ UNCHANGED <<vdpvars, primary_slot_config, slots, wrote_to_ppi, panicked>>
      ]_vars

\* Port 0xAC was read after a PPI write and a VDP access.
C18_Witness ==
    /\ last.op = "input"
    /\ last.addr = \hAC
    /\ last.value = \hFF
    /\ wrote_to_ppi
    /\ hist # <<>>

-----------------------------------------------------------------------------
(* Properties of the error paths *)

\* The opcode at PC, alone or with the byte after its prefix, has no arm in
\* Z80::execute. Every byte after a CB prefix has one.
UnknownFetched ==
    LET second == read_byte(primary_slot_config, slots, (cpu.pc + 1) % 65536,
                            overflow_checks).value
    IN \/ Fetched.value \in UnknownPrimary
       \/ Fetched.value = \hDD /\ second \notin KnownDD
       \/ Fetched.value = \hFD /\ second \notin KnownFD
       \/ Fetched.value = \hED /\ second \notin KnownED

\* C19: a step that fetches an opcode without an arm, primary or after a
\* prefix, ends the program; the CPU does not go on stepping.
C19_UnknownOpcodeFatal ==
    [][ (StepTaken /\ ~cpu.halted /\ ~InterruptDue /\ UnknownFetched) => panicked'
      ]_vars

\* C20: loading a ROM image longer than the slot returns a load error to the
\* caller, leaves the slots as they were and does not abort the program.
C20_LoadError ==
    [][ (loaded' # loaded /\ loaded'.len > loaded'.size) =>
          /\ ~panicked'
          /\ loaded'.result = "Err"
          /\ slots' = slots
      ]_vars

-----------------------------------------------------------------------------
(* Writes to ROM *)

\* The byte cell i of a ROM slot held when the slot was loaded.
LoadedByte(slot, i) == IF i < slot.rom.len THEN slot.rom.byte ELSE 255

\* C21: writes to a ROM slot are ignored: after any sequence of writes, every
\* read of a ROM slot returns the byte the slot held when it was loaded.
C21_RomImmutable ==
    \A i \in 0..3 :
        slots[i].kind = "Rom" =>
            \A j \in DOMAIN slots[i].data : Cell(slots[i], j) = LoadedByte(slots[i], j)

-----------------------------------------------------------------------------
(* Properties of the arithmetic and logic instructions *)

\* The step executes the instruction at PC, one of ops, and completes.
Executes(ops) ==
    /\ StepTaken
    /\ ~cpu.halted
    /\ ~InterruptDue
    /\ ~Fetched.panic
    /\ Fetched.value \in ops
    /\ ~panicked'

\* The operand the Z80 encoding of the opcode at PC names, before the step:
\* the byte after the opcode for the immediate forms, else B, C, D, E, H, L,
\* (HL), A by the low three bits of the opcode.
OperandOf ==
    LET opcode == Fetched.value IN
    IF opcode \in AluImmediate
    THEN read_byte(primary_slot_config, slots, (cpu.pc + 1) % 65536, overflow_checks).value
    ELSE CASE opcode % 8 = 0 -> cpu.b
           [] opcode % 8 = 1 -> cpu.c
           [] opcode % 8 = 2 -> cpu.d
           [] opcode % 8 = 3 -> cpu.e
           [] opcode % 8 = 4 -> cpu.h
           [] opcode % 8 = 5 -> cpu.l
           [] opcode % 8 = 6 ->
                read_byte(primary_slot_config, slots, cpu.h * 256 + cpu.l,
                          overflow_checks).value
           [] opcode % 8 = 7 -> cpu.a

\* Flag fl of F after the step.
FlagAfter(fl) == BitAnd(cpu'.f, fl) # 0

\* The carry flag before the step, as 0 or 1.
CarryBefore == cpu.f % 2

\* Bit 7 of a byte.
Bit7(x) == x >= 128

\* The number of 1 bits of a byte is even.
EvenBits(x) ==
    ((x % 2) + ((x \div 2) % 2) + ((x \div 4) % 2) + ((x \div 8) % 2)
       + ((x \div 16) % 2) + ((x \div 32) % 2) + ((x \div 64) % 2)
       + ((x \div 128) % 2)) % 2 = 0

SbcOps == (\h98..\h9F) \cup {\hDE}
CpOps == (\hB8..\hBF) \cup {\hFE}
LogicOps == (\hA0..\hB7) \cup {\hE6, \hEE, \hF6}
AdcOps == (\h88..\h8F) \cup {\hCE}

\* C22: for all A, operand v and carry-in c, SBC A,v sets A to (A - v - c) mod
\* 256, C iff A < v + c, Z iff the result is 0, S to bit 7 of the result, N to
\* 1, H iff (A & 0x0F) < (v & 0x0F) + c, and P/V iff
\* (A ^ v) & (A ^ result) & 0x80 != 0.
C22_Sbc ==
    [][ Executes(SbcOps) =>
          LET A == cpu.a
              v == OperandOf
              result == (cpu.a - OperandOf - CarryBefore + 512) % 256
          IN /\ cpu'.a = result
             /\ FlagAfter(FlagC) <=> (A < v + CarryBefore)
             /\ FlagAfter(FlagZ) <=> (result = 0)
             /\ FlagAfter(FlagS) <=> Bit7(result)
             /\ FlagAfter(FlagN)
             /\ FlagAfter(FlagH) <=> ((A % 16) < (v % 16) + CarryBefore)
             /\ FlagAfter(FlagP) <=> (Bit7(A) # Bit7(v) /\ Bit7(A) # Bit7(result))
      ]_vars

\* SBC A,D at address 0 ran with a borrow out: A = 0xC1 and C set, as for
\* A = 0xC0, D = 0xFF, carry-in 0.
C22_Witness ==
    /\ Cell(slots[0], 0) = \h9A
    /\ cpu.cycles = 1
    /\ cpu.pc = 1
    /\ cpu.d = \hFF
    /\ cpu.a = \hC1
    /\ cpu.f % 2 = 1

\* C23: CP leaves A unchanged and sets C iff A < n, Z iff A = n, S iff
\* (A - n) & 0x80 != 0 and N = 1; every flag it sets equals the flag SUB sets
\* for the same A and n.
C23_Cp ==
    [][ Executes(CpOps) =>
          LET A == cpu.a
              n == OperandOf
          IN /\ cpu'.a = A
             /\ FlagAfter(FlagC) <=> (A < n)
             /\ FlagAfter(FlagZ) <=> (A = n)
             /\ FlagAfter(FlagS) <=> Bit7((A - n + 256) % 256)
             /\ FlagAfter(FlagN)
             /\ cpu'.f = sub_a(cpu, n).f
      ]_vars

\* CP n at address 0 ran with A = 0x0F below n = 0x80: A is still 0x0F, C and
\* S are set and Z is clear.
C23_Witness ==
    /\ Cell(slots[0], 0) = \hFE
    /\ Cell(slots[0], 1) = \h80
    /\ cpu.cycles = 1
    /\ cpu.pc = 2
    /\ cpu.a = \h0F
    /\ get_flag(cpu.f, FlagC) /\ get_flag(cpu.f, FlagS) /\ ~get_flag(cpu.f, FlagZ)

\* C26: after every AND, OR or XOR, for every operand form, P/V is set iff A
\* has an even number of 1 bits, C = 0, N = 0, Z is set iff A = 0 and S equals
\* bit 7 of A.
C26_LogicFlags ==
    [][ Executes(LogicOps) =>
          /\ FlagAfter(FlagP) <=> EvenBits(cpu'.a)
          /\ ~FlagAfter(FlagC)
          /\ ~FlagAfter(FlagN)
          /\ FlagAfter(FlagZ) <=> (cpu'.a = 0)
          /\ FlagAfter(FlagS) <=> Bit7(cpu'.a)
      ]_vars

\* C30: every ADC A,s form sets A to (A + v + c) mod 256, C iff A + v + c >
\* 0xFF, H iff (A & 0x0F) + (v & 0x0F) + c > 0x0F, S to bit 7 of the result, Z
\* iff the result is 0, N to 0 and P/V iff (A ^ result) & ~(A ^ v) & 0x80 != 0,
\* and never fails.
C30_Adc ==
    [][ (StepTaken /\ ~cpu.halted /\ ~InterruptDue /\ ~Fetched.panic
           /\ Fetched.value \in AdcOps) =>
          LET A == cpu.a
              v == OperandOf
              result == (cpu.a + OperandOf + CarryBefore) % 256
          IN /\ ~panicked'
             /\ cpu'.a = result
             /\ FlagAfter(FlagC) <=> (A + v + CarryBefore > \hFF)
             /\ FlagAfter(FlagH) <=> ((A % 16) + (v % 16) + CarryBefore > \h0F)
             /\ FlagAfter(FlagS) <=> Bit7(result)
             /\ FlagAfter(FlagZ) <=> (result = 0)
             /\ ~FlagAfter(FlagN)
             /\ FlagAfter(FlagP) <=> (Bit7(A) = Bit7(v) /\ Bit7(A) # Bit7(result))
      ]_vars

-----------------------------------------------------------------------------
(* Properties of the stack, of PC and of LDIR *)

\* The step executes the instruction at PC, which satisfies P, and completes.
Runs(P) ==
    /\ StepTaken
    /\ ~cpu.halted
    /\ ~InterruptDue
    /\ ~Fetched.panic
    /\ P
    /\ ~panicked'

\* The byte after the opcode at PC.
SecondByte ==
    read_byte(primary_slot_config, slots, (cpu.pc + 1) % 65536, overflow_checks).value

\* Memory at an address before and after the step.
MemAt(a) == read_byte(primary_slot_config, slots, a % 65536, overflow_checks).value
MemAfter(a) == read_byte(primary_slot_config', slots', a % 65536, overflow_checks).value

\* The instruction at PC is PUSH rr / POP rr, rr one of BC, DE, HL, AF, IX, IY.
IsPush == Fetched.value \in PushOps \/ (Fetched.value \in {\hDD, \hFD} /\ SecondByte = \hE5)
IsPop == Fetched.value \in PopOps \/ (Fetched.value \in {\hDD, \hFD} /\ SecondByte = \hE1)

\* The register pair the PUSH at PC names, before the step.
PushedPair ==
    CASE Fetched.value = \hC5 -> cpu.b * 256 + cpu.c
      [] Fetched.value = \hD5 -> cpu.d * 256 + cpu.e
      [] Fetched.value = \hE5 -> cpu.h * 256 + cpu.l
      [] Fetched.value = \hF5 -> cpu.a * 256 + cpu.f
      [] Fetched.value = \hDD -> cpu.ix
      [] Fetched.value = \hFD -> cpu.iy

\* The register pair the POP at PC names, after the step.
PoppedPairAfter ==
    CASE Fetched.value = \hC1 -> cpu'.b * 256 + cpu'.c
      [] Fetched.value = \hD1 -> cpu'.d * 256 + cpu'.e
      [] Fetched.value = \hE1 -> cpu'.h * 256 + cpu'.l
      [] Fetched.value = \hF1 -> cpu'.a * 256 + cpu'.f
      [] Fetched.value = \hDD -> cpu'.ix
      [] Fetched.value = \hFD -> cpu'.iy

\* C24: for every register pair rr in {BC, DE, HL, AF, IX, IY} and every value
\* v of rr, PUSH rr decrements SP by 2 and stores the low byte of v at SP and
\* the high byte at SP+1; POP rr' loads rr' with the word at SP and adds 2 to
\* SP, so that POP after PUSH yields v and the SP from before the PUSH.
C24_PushPop ==
    [][ /\ Runs(IsPush) =>
              /\ cpu'.sp = (cpu.sp + 65534) % 65536
              /\ MemAfter(cpu'.sp) = PushedPair % 256
              /\ MemAfter(cpu'.sp + 1) = PushedPair \div 256
        /\ Runs(IsPop) =>
              /\ cpu'.sp = (cpu.sp + 2) % 65536
              /\ PoppedPairAfter = MemAt(cpu.sp) + 256 * MemAt(cpu.sp + 1)
      ]_vars

\* The instructions with one encoded length that are not control transfers,
\* among those the model executes, and their lengths.
HasLength ==
    \/ Fetched.value \in {\h00, \hFB, \hF3, \h76, \hD3} \cup AluOps \cup PushOps \cup PopOps
    \/ Fetched.value \in {\hDD, \hFD} /\ SecondByte \in IndexOps
    \/ Fetched.value = \hED /\ SecondByte = \hB0

EncodedLength ==
    CASE Fetched.value \in {\hD3, \hED} \cup AluImmediate -> 2
      [] Fetched.value \in {\hDD, \hFD} -> IF SecondByte = \hBE THEN 3 ELSE 2
      [] OTHER -> 1

\* C27: a step that executes an instruction which is not a taken control
\* transfer leaves PC at the pre-step PC plus the instruction's encoded length:
\* 1 for PUSH rr / POP rr, 3 for CP (IX+d) / CP (IY+d).
C27_PcAdvance ==
    [][ Runs(HasLength) => cpu'.pc = (cpu.pc + EncodedLength) % 65536 ]_vars

\* The instruction at PC is LDIR.
IsLdir == Fetched.value = \hED /\ SecondByte = \hB0

\* A step that executes LDIR, whether or not it completes.
LdirStep == StepTaken /\ ~cpu.halted /\ ~InterruptDue /\ ~Fetched.panic /\ IsLdir

\* BC, HL and DE before the step.
BC == cpu.b * 256 + cpu.c
HL == cpu.h * 256 + cpu.l
DE == cpu.d * 256 + cpu.e

\* C25 as stated: LDIR completes; afterwards BC = 0, HL and DE have advanced by
\* the old BC, and the BC bytes from the old DE on equal the bytes memory held
\* from the old HL on before the instruction, also when the ranges overlap.
C25_Ldir ==
    [][ LdirStep =>
          /\ ~panicked'
          /\ cpu'.b = 0 /\ cpu'.c = 0
          /\ cpu'.h * 256 + cpu'.l = (HL + BC) % 65536
          /\ cpu'.d * 256 + cpu'.e = (DE + BC) % 65536
          /\ \A i \in 0..(BC - 1) : MemAfter(DE + i) = MemAt(HL + i)
      ]_vars

\* C25, amended: LDIR completes; afterwards BC = 0, HL and DE have advanced by
\* the old BC, and byte i of the destination equals the byte the source cell
\* HL+i held before the instruction unless that cell is one of the destination
\* cells DE..DE+i-1, written earlier in the copy; then it equals the byte that
\* cell holds afterwards.
C25_LdirAmended ==
    [][ LdirStep =>
          /\ ~panicked'
          /\ cpu'.b = 0 /\ cpu'.c = 0
          /\ cpu'.h * 256 + cpu'.l = (HL + BC) % 65536
          /\ cpu'.d * 256 + cpu'.e = (DE + BC) % 65536
          /\ \A i \in 0..(BC - 1) :
                MemAfter(DE + i) =
                    IF \E j \in 0..(i - 1) : (DE + j) % 65536 = (HL + i) % 65536
                    THEN MemAfter(HL + i)
                    ELSE MemAt(HL + i)
      ]_vars

\* LDIR ran with BC = 3, HL = 0x0100 and DE = 0x0101, the destination one byte
\* above the source: the first source byte fills the destination.
C25_Witness ==
    /\ Cell(slots[0], 0) = \hED /\ Cell(slots[0], 1) = \hB0
    /\ cpu.cycles = 1
    /\ cpu.pc = 2
    /\ cpu.b = 0 /\ cpu.c = 0
    /\ cpu.h = \h01 /\ cpu.l = \h03
    /\ cpu.d = \h01 /\ cpu.e = \h04
    /\ Cell(slots[0], \h0100) = \h11
    /\ Cell(slots[0], \h0101) = \h11
    /\ Cell(slots[0], \h0102) = \h11
    /\ Cell(slots[0], \h0103) = \h11

-----------------------------------------------------------------------------
(* Properties of interrupt requests and of EI / DI *)

\* C28: a request raised while IFF1 is false stays pending across steps and is
\* accepted by the first step that starts with IFF1 true and the CPU not
\* halted; acceptance consumes it, and a step never raises a request, so one
\* request causes one jump to 0x0038.
C28_RequestPending ==
    [][ /\ (StepTaken /\ ~panicked' /\ cpu.interrupt_request /\ ~cpu.iff1) =>
              cpu'.interrupt_request
        /\ (StepTaken /\ ~panicked' /\ cpu.interrupt_request /\ cpu.iff1 /\ ~cpu.halted) =>
              (cpu'.pc = \h0038 /\ ~cpu'.interrupt_request /\ cpu'.sp = (cpu.sp + 65534) % 65536)
        /\ (StepTaken /\ ~cpu.interrupt_request) => ~cpu'.interrupt_request
      ]_vars

\* DI; NOP; EI ran, the request raised on the way was accepted by the step
\* after EI (return address 3 on the stack) and is no longer pending.
C28_Witness ==
    /\ Cell(slots[0], 0) = \hF3 /\ Cell(slots[0], 2) = \hFB
    /\ cpu.cycles = 4
    /\ cpu.pc = \h0038
    /\ cpu.sp = \hFFFD
    /\ Cell(slots[0], \hFFFD) = 3
    /\ Cell(slots[0], \hFFFE) = 0
    /\ ~cpu.interrupt_request
    /\ ~cpu.iff1

\* C29: EI sets IFF1 and IFF2, DI clears IFF1 and IFF2; each advances PC by 1
\* and changes no other register, flag or memory.
C29_EiDi ==
    [][ /\ Runs(Fetched.value = \hFB) =>
              /\ cpu' = [cpu EXCEPT !.iff1 = TRUE, !.iff2 = TRUE,
                                    !.pc = (@ + 1) % 65536, !.cycles = @ + 1]
              /\ UNCHANGED <<busvars, vdpvars>>
        /\ Runs(Fetched.value = \hF3) =>
              /\ cpu' = [cpu EXCEPT !.iff1 = FALSE, !.iff2 = FALSE,
                                    !.pc = (@ + 1) % 65536, !.cycles = @ + 1]
              /\ UNCHANGED <<busvars, vdpvars>>
      ]_vars

-----------------------------------------------------------------------------
(* Properties of the 16-bit subtraction, of INC / DEC and of the jumps *)

\* A step that executes SBC HL, BC, whether or not it completes.
SbcHlStep ==
    /\ StepTaken /\ ~cpu.halted /\ ~InterruptDue /\ ~Fetched.panic
    /\ Fetched.value = \hED /\ SecondByte = \h42

\* Bit 15 of a word.
Bit15(x) == x >= 32768

\* C31: for all HL, BC and carry-in c, SBC HL,BC completes and sets HL to
\* (HL - BC - c) mod 65536, C iff HL < BC + c computed without wrap-around, P/V
\* iff HL and BC differ in sign and the result's sign differs from HL's, S to
\* bit 15 of the result, Z iff the result is 0 and N to 1.
C31_SbcHl ==
    [][ SbcHlStep =>
          LET result == (HL - BC - CarryBefore + 131072) % 65536
          IN /\ ~panicked'
             /\ cpu'.h * 256 + cpu'.l = result
             /\ FlagAfter(FlagC) <=> (HL < BC + CarryBefore)
             /\ FlagAfter(FlagP) <=> (Bit15(HL) # Bit15(BC) /\ Bit15(HL) # Bit15(result))
             /\ FlagAfter(FlagS) <=> Bit15(result)
             /\ FlagAfter(FlagZ) <=> (result = 0)
             /\ FlagAfter(FlagN)
      ]_vars

\* The operand of the INC or DEC at PC, before and after the step: the
\* register bits 5..3 of the opcode name, or the byte at the address in HL.
IncDecOperand ==
    IF (Fetched.value \div 8) % 8 = 6 THEN MemAt(HL)
    ELSE register(cpu, (Fetched.value \div 8) % 8)
IncDecOperandAfter ==
    IF (Fetched.value \div 8) % 8 = 6 THEN MemAfter(HL)
    ELSE register(cpu', (Fetched.value \div 8) % 8)

\* C32: INC and DEC of A, B, C, D, E, H, L and (HL) all follow the same flag
\* rules: C is unaffected, S is bit 7 and Z the zero-ness of the result; INC
\* clears N, sets H iff the low nibble of the result is 0 and P/V iff the
\* result is 0x80; DEC sets N, sets H iff the low nibble of the operand was 0
\* and P/V iff the operand was 0x80.
C32_IncDecFlags ==
    [][ /\ Runs(Fetched.value \in IncOps) =>
              /\ IncDecOperandAfter = (IncDecOperand + 1) % 256
              /\ FlagAfter(FlagC) <=> (CarryBefore = 1)
              /\ FlagAfter(FlagS) <=> Bit7(IncDecOperandAfter)
              /\ FlagAfter(FlagZ) <=> (IncDecOperandAfter = 0)
              /\ ~FlagAfter(FlagN)
              /\ FlagAfter(FlagH) <=> (IncDecOperandAfter % 16 = 0)
              /\ FlagAfter(FlagP) <=> (IncDecOperandAfter = \h80)
        /\ Runs(Fetched.value \in DecOps) =>
              /\ IncDecOperandAfter = (IncDecOperand + 255) % 256
              /\ FlagAfter(FlagC) <=> (CarryBefore = 1)
              /\ FlagAfter(FlagS) <=> Bit7(IncDecOperandAfter)
              /\ FlagAfter(FlagZ) <=> (IncDecOperandAfter = 0)
              /\ FlagAfter(FlagN)
              /\ FlagAfter(FlagH) <=> (IncDecOperand % 16 = 0)
              /\ FlagAfter(FlagP) <=> (IncDecOperand = \h80)
      ]_vars

-----------------------------------------------------------------------------
(* Properties of RST, of the relative jumps and of the loads *)

\* The eight RST opcodes, 0xC7 + p for p = 0x00, 0x08, ..., 0x38.
RstEncodings == {\hC7 + p : p \in {\h00, \h08, \h10, \h18, \h20, \h28, \h30, \h38}}

\* A step that executes one of the eight RST opcodes, whether or not it completes.
RstStep ==
    /\ StepTaken /\ ~cpu.halted /\ ~InterruptDue /\ ~Fetched.panic
    /\ Fetched.value \in RstEncodings

\* C33: for each p in {0x00, 0x08, ..., 0x38}, RST p (opcode 0xC7 + p) pushes
\* the address of the following instruction, PC + 1, on the stack and sets PC
\* to p, whatever the registers hold.
C33_Rst ==
    [][ RstStep =>
          /\ ~panicked'
          /\ cpu'.pc = Fetched.value - \hC7
          /\ cpu'.sp = (cpu.sp + 65534) % 65536
          /\ MemAfter(cpu'.sp) = ((cpu.pc + 1) % 65536) % 256
          /\ MemAfter(cpu'.sp + 1) = ((cpu.pc + 1) % 65536) \div 256
      ]_vars

\* A step that executes a relative jump, whether or not it completes.
RelativeStep ==
    /\ StepTaken /\ ~cpu.halted /\ ~InterruptDue /\ ~Fetched.panic
    /\ Fetched.value \in RelativeOps

\* The displacement of the relative jump at PC, in -128..127.
Displacement == IF SecondByte >= 128 THEN SecondByte - 256 ELSE SecondByte

\* The relative jump at PC is taken: JR e always, JR cc, e if cc holds of the
\* flags before the step, DJNZ e if B - 1 is not zero.
Taken ==
    CASE Fetched.value = \h18 -> TRUE
      [] Fetched.value = \h20 -> BitAnd(cpu.f, FlagZ) = 0
      [] Fetched.value = \h28 -> BitAnd(cpu.f, FlagZ) # 0
      [] Fetched.value = \h30 -> BitAnd(cpu.f, FlagC) = 0
      [] Fetched.value = \h38 -> BitAnd(cpu.f, FlagC) # 0
      [] Fetched.value = \h10 -> cpu.b # 1

\* C34: a relative jump completes for every displacement e in -128..127 and
\* every PC; taken, it sets PC to (PC + 2 + e) mod 2^16, and not taken to
\* PC + 2; DJNZ decrements B first and is taken iff B is then not zero.
C34_RelativeJump ==
    [][ RelativeStep =>
          /\ ~panicked'
          /\ cpu'.pc = IF Taken THEN (cpu.pc + 2 + Displacement + 65536) % 65536
                       ELSE (cpu.pc + 2) % 65536
          /\ Fetched.value = \h10 => cpu'.b = (cpu.b + 255) % 256
      ]_vars

\* C35: for each r in A, B, C, D, E, H, L, LD (HL),r stores the value of
\* register r at the address in HL, advances PC by 1 and changes no register
\* and no flag.
C35_LdHlR ==
    [][ Runs(Fetched.value \in LdHlOps) =>
          /\ MemAfter(HL) = register(cpu, Fetched.value % 8)
          /\ cpu' = [cpu EXCEPT !.pc = (@ + 1) % 65536, !.cycles = @ + 1]
      ]_vars

\* The operand of the 0xCB instruction at PC, before and after the step: the
\* register bits 2..0 of the second byte name, or the byte at the address in HL.
CbOperand ==
    IF SecondByte % 8 = 6 THEN MemAt(HL) ELSE register(cpu, SecondByte % 8)
CbOperandAfter ==
    IF SecondByte % 8 = 6 THEN MemAfter(HL) ELSE register(cpu', SecondByte % 8)

\* The Z80 result of the rotate or shift numbered op on v with carry-in c:
\* 0 RLC, 1 RRC, 2 RL, 3 RR, 4 SLA, 5 SRA, 7 SRL.
ShiftResult(op, v, c) ==
    CASE op = 0 -> ((v * 2) % 256) + (v \div 128)
      [] op = 1 -> (v \div 2) + 128 * (v % 2)
      [] op = 2 -> ((v * 2) % 256) + c
      [] op = 3 -> (v \div 2) + 128 * c
      [] op = 4 -> (v * 2) % 256
      [] op = 5 -> (v \div 2) + 128 * (v \div 128)
      [] op = 7 -> v \div 2

\* The bit the operation shifts out of v: bit 7 for RLC, RL, SLA and bit 0 for
\* RRC, RR, SRA, SRL.
ShiftedOut(op, v) == IF op \in {0, 2, 4} THEN v \div 128 ELSE v % 2

\* C36: for the second bytes 0x00..0x3F after 0xCB, bits 5..3 choose the
\* operation (0 RLC, 1 RRC, 2 RL, 3 RR, 4 SLA, 5 SRA, 7 SRL) and bits 2..0 the
\* operand; the operand receives the operation's result and C the bit shifted
\* out.
C36_CbShift ==
    [][ Runs(Fetched.value = \hCB /\ SecondByte \in \h00..\h3F
               /\ (SecondByte \div 8) % 8 # 6) =>
          /\ CbOperandAfter = ShiftResult((SecondByte \div 8) % 8, CbOperand, CarryBefore)
          /\ FlagAfter(FlagC) <=> (ShiftedOut((SecondByte \div 8) % 8, CbOperand) = 1)
      ]_vars

\* The 16-bit operand of a four-byte instruction at PC: (hi << 8) | lo of the
\* two bytes after the two opcode bytes.
Operand16 == MemAt(cpu.pc + 3) * 256 + MemAt(cpu.pc + 2)

\* C37: LD IX,nn (DD 21 lo hi) sets IX to (hi << 8) | lo, lo and hi being the
\* two bytes after DD 21, advances PC by 4 and changes nothing else; the loads
\* under FD take the two bytes after the opcode as their operand too and act
\* on IY: FD 22 stores IY at nn, FD 2A loads IY from nn.
C37_IndexLoad ==
    [][ /\ Runs(Fetched.value = \hDD /\ SecondByte = \h21) =>
              /\ cpu' = [cpu EXCEPT !.ix = Operand16, !.pc = (@ + 4) % 65536,
                                    !.cycles = @ + 1]
              /\ slots' = slots
        /\ Runs(Fetched.value = \hFD /\ SecondByte = \h22) =>
              /\ cpu' = [cpu EXCEPT !.pc = (@ + 4) % 65536, !.cycles = @ + 1]
              /\ MemAfter(Operand16) = cpu.iy % 256
              /\ MemAfter(Operand16 + 1) = cpu.iy \div 256
        /\ Runs(Fetched.value = \hFD /\ SecondByte = \h2A) =>
              /\ cpu' = [cpu EXCEPT !.iy = MemAt(Operand16) + 256 * MemAt(Operand16 + 1),
                                    !.pc = (@ + 4) % 65536, !.cycles = @ + 1]
              /\ slots' = slots
      ]_vars

-----------------------------------------------------------------------------
(* Properties of reset against construction *)

\* C39: after Msx::reset from any reachable state, the CPU registers (main and
\* alternate, SP, PC, IX, IY, IFF1, IFF2, IM, halted, the pending request,
\* cycles), the whole VDP state and the PPI-write flag equal those of a machine
\* just built by Msx::new.
C39_ResetAsNew ==
    [][ nresets' = nresets + 1 =>
          /\ cpu' = Z80_new
          /\ vdp' = TMS9918_new
          /\ wrote_to_ppi' = FALSE
      ]_vars

-----------------------------------------------------------------------------
(* Properties of the runner and of its instruction log *)

\* The items a sequence holds.
Held(items) == {items[i] : i \in DOMAIN items}

\* C40: after any sequence of pushes on a list of capacity n >= 1 the list
\* holds at most n items, no two of them equal, and the item pushed last is at
\* the front; a push of an item already held moves it to the front and keeps
\* every other item, in order; a push of a new item into a full list drops
\* exactly the item at the back, and into a list with room drops nothing.
C40_Mru ==
    instructions.capacity >= 1 =>
        LET old == last_push.before
            item == last_push.item
            new == instructions.items
        IN /\ Len(new) <= instructions.capacity
           /\ \A i, j \in DOMAIN new : i # j => new[i] # new[j]
           /\ last_push # NoPush =>
                /\ new # <<>>
                /\ new[1] = item
                /\ item \in Held(old) =>
                      Tail(new) = SelectSeq(old, LAMBDA x : x # item)
                /\ (item \notin Held(old) /\ Len(old) = instructions.capacity) =>
                      Tail(new) = SubSeq(old, 1, Len(old) - 1)
                /\ (item \notin Held(old) /\ Len(old) < instructions.capacity) =>
                      Tail(new) = old

\* A list of capacity 3 was full, and the item at its back was pushed again.
C40_Witness ==
    /\ instructions.capacity = 3
    /\ Len(last_push.before) = 3
    /\ last_push.item = last_push.before[3]
    /\ Len(instructions.items) = 3

\* C38 as stated: whenever the runner sees the PPI-write edge as true after a
\* step, the instruction executed by that most recent step made an output to a
\* PPI port: a PPI write of an earlier step is never reported for a later one.
C38_PpiEdgeFresh == ppi_edge => step_output

====
